---- MODULE Spec2Model ----
(***************************************************************************)
(* A model of iftpfm2, one specification for each part of the program.     *)
(*                                                                         *)
(* Spec          the transfer engine (ftp_ops.rs), one rule, against a     *)
(*               source and a destination whose operations may each fail.  *)
(* SpecRerun     the engine run again over a destination already filled.   *)
(* SpecSelect    one listed file through the selection and staging choice. *)
(* SpecInstance  two processes of one user starting concurrently and       *)
(*               competing for the PID-file lock (instance.rs).            *)
(* SpecRuntime   the shutdown flags, the signal thread and the socket      *)
(*               listener of a running process (shutdown.rs).              *)
(* SpecConfig    the configuration loader (config.rs).                     *)
(* SpecCli       the command line (cli.rs).                                *)
(* SpecMigrate   the CSV migrator followed by the loader.                  *)
(* SpecConnect   connect of the three protocol clients (protocols/).       *)
(* SpecSftp      cwd and the paths of the SFTP client.                     *)
(* SpecLogin     the credentials of a rule side from validate to login.    *)
(* SpecDriver    the driver summing the results of the rules (main.rs).    *)
(* SpecPool      the workers of the pool and their temporary names.        *)
(* SpecLog       threads in log_with_thread and set_log_file (logging.rs). *)
(*                                                                         *)
(* The remote servers are modelled as file systems whose replies are true: *)
(* an operation either fails and changes nothing, or succeeds with its     *)
(* effect; put_file and rename may leave a file shorter than was sent.     *)
(***************************************************************************)
EXTENDS Integers, Sequences, FiniteSets, TLC

VARIABLES
    \* ---- transfer engine (ftp_ops.rs) ----
    pc,                   \* position of transfer_files
    shutdown,             \* SHUTDOWN_REQUESTED (shutdown.rs)
    delete,               \* the delete argument of transfer_files
    regex,                \* set of names config.filename_regexp matches
    age,                  \* config.age (min age in seconds)
    src,                  \* source directory: present name -> size
    dst,                  \* destination directory: present name -> size
    file_list,            \* result of ftp_from.nlst
    idx,                  \* index of the file the loop is at
    file_size,            \* size replied by the source's SIZE
    staged,               \* buffer.size() after retr
    upload_verified,      \* local upload_verified
    final_verified,       \* local final_verified
    warnings,             \* the WARNING lines logged for the current file
    successful_transfers, \* local successful_transfers
    from_sess,            \* ftp_from: "none", "open", "quit"
    to_sess,              \* ftp_to: "none", "open", "quit"
    ret,                  \* value returned by transfer_files (once pc = "done")
    ops,                  \* history: operations issued for the current file
    counted,              \* history: names counted as successful
    incs,                 \* history: number of increments per file index
    quits,                \* history: sessions quit, in order
    connects,             \* history: number of connect attempts
    setup_log,            \* history: the session setup operations issued
    sawShutdown,          \* history: a loop head observed the shutdown flag
    dst0,                 \* history: the destination directory before the run
    clean,                \* history: every file finished so far went through
                          \* with no refused operation and no short size
    \* ---- single-instance guard (instance.rs) ----
    ipc,                  \* per process: position in check_single_instance
    fd,                   \* per process: inode its lock_file handle is open on
    path,                 \* PID path: inode it names, or NoInode
    lockHolder,           \* per inode: the process holding flock on it, or None
    content,              \* per inode: PID text stored in the file
    sockOwner,            \* socket path: creator of the socket file there, or None
    pending,              \* per process: undelivered signals
    isd,                  \* per process: its shutdown flag
    polls,                \* per process: polls taken in signal_process_to_terminate
    readPid,              \* per process: pid parsed from the PID file
    evLog,                \* per process: history of signals, polls and lock retries
    result,               \* per process: result of check_single_instance
    grace,                \* grace_seconds
    \* ---- one file through check_file_should_transfer and staging ----
    probe,                \* the file and the replies it will get (inputs)
    sel_pc,               \* position: regex, mdtm, size, stage, put, ...
    sel_ops,              \* history: operations issued for the file
    storage,              \* local storage: "RAM", "disk", "" before the choice
    \* ---- the shutdown flags of a running process (shutdown.rs) ----
    signal_type,          \* SIGNAL_TYPE
    sig_thread,           \* the signal thread: "waiting", "storing", "done"
    listener,             \* the socket listener thread: "accepting", "exited"
    conn,                 \* history: the last connection the listener served
    conns,                \* history: number of connections served
    observed,             \* history: last value is_shutdown_requested returned
    signal,               \* history: the signal the signal thread took
    got,                  \* history: the last get_signal_type call
    \* ---- the configuration loader (config.rs) ----
    file,                 \* the lines of the configuration file
    line_num,             \* parse_config: index of the line the loop is at
    configs,              \* parse_config: local configs
    parsed,               \* parse_config: "reading", then "Ok" or "Err"
    parse_error,          \* the error returned: what failed, line, detail
    \* ---- the command line (cli.rs) ----
    argv,                 \* env::args() after the program name
    argi,                 \* position of the iterator args
    opts,                 \* the locals of parse_args
    cli_result,           \* what parse_args returned: kind and message
    \* ---- the CSV migrator (migrate_csv_to_jsonl.rs) ----
    csv,                  \* the lines of the input file
    row_num,              \* main: index of the line the loop is at
    output_lines,         \* main: local output_lines
    migrated,             \* the output file is written
    \* ---- connect of the three protocol clients (protocols/) ----
    protocol,             \* "ftp", "ftps" or "sftp"
    addrs,                \* local addrs: what each resolved address does
    addr_i,               \* position of `for addr in addrs`
    connected,            \* what connect returned: "Ok", "Err", "" before
    tried,                \* history: the addresses a TCP connect was made to
    \* ---- the SFTP client (protocols/sftp.rs) ----
    current_dir,          \* SftpClient.current_dir
    cwd_call,             \* history: the last cwd, what stat answered, the result
    sftp_call,            \* history: the last file operation and its paths
    \* ---- the driver (main.rs, main) ----
    jobs,                 \* per rule: where its closure is, the worker, its value
    total_transfers,      \* local total_transfers, "" until the sum is there
    handed,               \* history: times each rule was given to a worker
    \* ---- the log (logging.rs) ----
    log_pc,               \* per thread: where it is in log_with_thread / set_log_file
    LOG_FILE,             \* the value LOG_FILE protects
    LOG_FILE_HANDLE,      \* the value LOG_FILE_HANDLE protects: the path it is open on
    path_guard,           \* the thread holding the LOG_FILE mutex, or None
    handle_guard,         \* the thread holding the LOG_FILE_HANDLE mutex, or None
    log_local,            \* per thread: log_file_clone / path_str
    log_calls,            \* history: calls each thread has made
    \* ---- the workers of the pool, each in transfer_files (main.rs, ftp_ops.rs) ----
    configs_arc,          \* the rules: destination and source listing of each
    running,              \* per worker: the rule and file it is at, and the step
    dealt,                \* the rules the parallel iterator has handed out
    \* ---- the credentials of one side of a rule, from validate to login ----
    rule_side,            \* protocol, password, keyfile, keyfile_pass of the side
    login_pc,             \* "validate", "connect", "login", then the outcome
    auth_method,          \* SftpClient.auth_method, set by connect
    userauth              \* history: the authentication call login made

engineVars == <<pc, shutdown, delete, regex, age, src, dst, file_list, idx,
                file_size, staged, upload_verified, final_verified, warnings,
                successful_transfers, from_sess, to_sess, ret, ops, counted,
                incs, quits, connects, setup_log, sawShutdown, dst0, clean>>

instVars == <<ipc, fd, path, lockHolder, content, sockOwner, pending, isd,
              polls, readPid, evLog, result, grace>>

selectVars == <<probe, sel_pc, sel_ops, storage>>

runtimeVars == <<signal_type, sig_thread, listener, conn, conns, observed,
                 signal, got>>

configVars == <<file, line_num, configs, parsed, parse_error>>

cliVars == <<argv, argi, opts, cli_result>>

migrateVars == <<csv, row_num, output_lines, migrated>>

connectVars == <<protocol, addrs, addr_i, connected, tried>>

sftpVars == <<current_dir, cwd_call, sftp_call>>

driverVars == <<jobs, total_transfers, handed>>

logVars == <<log_pc, LOG_FILE, LOG_FILE_HANDLE, path_guard, handle_guard,
             log_local, log_calls>>

poolVars == <<configs_arc, running, dealt>>

loginVars == <<rule_side, login_pc, auth_method, userauth>>

toolVars == <<loginVars, poolVars, logVars, configVars, cliVars, migrateVars, connectVars, sftpVars,
              driverVars>>

unitVars == <<selectVars, runtimeVars, toolVars>>

vars == <<engineVars, instVars, unitVars>>

----
\* Bounds of the model.
MaxFiles == 2      \* names in the source directory
MaxSize == 2       \* size of every file on the source
MaxAge == 2        \* largest config.age tried
MaxGrace == 1      \* largest grace_seconds tried
MaxConns == 2      \* connections the socket listener is seen to serve

OldSize == MaxSize + 5     \* size of a file the destination held before the run
Now == MaxAge + 1          \* SystemTime::now(), seconds since the epoch

AllNames == <<"a.txt", "b.bin", "c.log", "d.dat">>
Names == {AllNames[i] : i \in 1..MaxFiles}

PidStr == "77"     \* std::process::id(), formatted

tmp_filename(filename) == "." \o filename \o "." \o PidStr \o ".tmp"

TmpNames == {tmp_filename(n) : n \in Names}

\* Timestamps an MDTM reply can carry: pre-epoch, past, present, future.
MTimes == (-1)..(Now + 1)

cfg == <<delete, regex, age, dst0>>
servers == <<src, dst>>
locals == <<file_size, staged, upload_verified, final_verified, warnings>>
sess == <<from_sess, to_sess, quits, connects, setup_log>>
tally == <<successful_transfers, counted, incs, clean>>

filename == file_list[idx]

\* One entry per remote operation: the session, the operation, the name it
\* addresses, whether it succeeded, and the size a SIZE reply carried.
Issue(side, op, name, ok, val) == ops' = Append(ops, <<side, op, name, ok, val>>)

\* `continue`: the for loop takes the next name of file_list.
Continue == idx' = idx + 1 /\ pc' = "loop"

\* Mutant: the listing is processed last name first.
ListingReversed ==
    LET L == SelectSeq(SubSeq(AllNames, 1, MaxFiles), LAMBDA n : n \in DOMAIN src)
    IN [i \in 1..Len(L) |-> L[Len(L) + 1 - i]]

\* The source listing: the names present, in directory order.
Listing == SelectSeq(SubSeq(AllNames, 1, MaxFiles), LAMBDA n : n \in DOMAIN src)

\* A remote directory is a function from the names present to their sizes.
Has(fs, n) == n \in DOMAIN fs
Store(fs, n, v) == [m \in DOMAIN fs \cup {n} |-> IF m = n THEN v ELSE fs[m]]
Remove(fs, n) == [m \in DOMAIN fs \ {n} |-> fs[m]]
\* The server's rename: the file moves to the new name, replacing what was
\* there. What is then found under the new name may be `lost` bytes short of
\* what was uploaded: the anomaly verify_final_file exists to detect.
Renamed(fs, a, b, lost) == Remove(Store(fs, b, fs[a] - lost), a)

----
\* The state of the single-instance guard while only the engine is observed.
Procs == {"A", "B"}       \* two processes of one user; the name stands for the pid
Old == "old"              \* the pid of a process of an earlier run, now dead
None == "none"
Inodes == {"i1", "i2"}    \* files the PID path can name over time
NoInode == "none"

InstanceIdle ==
    /\ ipc = [p \in Procs |-> "idle"]
    /\ fd = [p \in Procs |-> NoInode]
    /\ path = NoInode
    /\ lockHolder = [i \in Inodes |-> None]
    /\ content = [i \in Inodes |-> ""]
    /\ sockOwner = None
    /\ pending = [p \in Procs |-> {}]
    /\ isd = [p \in Procs |-> FALSE]
    /\ polls = [p \in Procs |-> 0]
    /\ readPid = [p \in Procs |-> None]
    /\ evLog = [p \in Procs |-> <<>>]
    /\ result = [p \in Procs |-> "none"]
    /\ grace = 0

\* The file-selection and shutdown-flag parts while they are not observed.
NoConn == <<>>
NoCall == <<>>

SelectIdle ==
    /\ probe = <<>>
    /\ sel_pc = "off"
    /\ sel_ops = <<>>
    /\ storage = ""

ConfigIdle ==
    /\ file = <<>>
    /\ line_num = 0
    /\ configs = <<>>
    /\ parsed = "off"
    /\ parse_error = <<>>

CliIdle ==
    /\ argv = <<>>
    /\ argi = 1
    /\ opts = <<>>
    /\ cli_result = <<"off", "">>

MigrateIdle ==
    /\ csv = <<>>
    /\ row_num = 0
    /\ output_lines = <<>>
    /\ migrated = FALSE

ConnectIdle ==
    /\ protocol = "off"
    /\ addrs = <<>>
    /\ addr_i = 1
    /\ connected = ""
    /\ tried = <<>>

SftpIdle ==
    /\ current_dir = <<>>
    /\ cwd_call = <<>>
    /\ sftp_call = <<>>

DriverIdle ==
    /\ jobs = <<>>
    /\ total_transfers = <<>>
    /\ handed = <<>>

LogIdle ==
    /\ log_pc = <<>>
    /\ LOG_FILE = <<>>
    /\ LOG_FILE_HANDLE = <<>>
    /\ path_guard = None
    /\ handle_guard = None
    /\ log_local = <<>>
    /\ log_calls = <<>>

PoolIdle ==
    /\ configs_arc = <<>>
    /\ running = <<>>
    /\ dealt = {}

LoginIdle ==
    /\ rule_side = <<>>
    /\ login_pc = "off"
    /\ auth_method = <<>>
    /\ userauth = <<>>

ToolsIdle ==
    /\ LoginIdle
    /\ PoolIdle
    /\ LogIdle
    /\ ConfigIdle
    /\ CliIdle
    /\ MigrateIdle
    /\ ConnectIdle
    /\ SftpIdle
    /\ DriverIdle

RuntimeIdle ==
    /\ signal_type = 0
    /\ sig_thread = "off"
    /\ listener = "off"
    /\ conn = NoConn
    /\ conns = 0
    /\ observed = FALSE
    /\ signal = ""
    /\ got = NoCall

----
\* The transfer engine.

Init ==
    /\ pc = "start"
    /\ shutdown = FALSE
    /\ delete \in BOOLEAN
    /\ regex \in {Names, Names \ {AllNames[1]}}
    /\ age \in {0, MaxAge}
    /\ src = [n \in Names |-> MaxSize]
    /\ dst \in {[n \in old |-> OldSize] : old \in SUBSET Names}
    /\ file_list = <<>>
    /\ idx = 1
    /\ file_size = 0
    /\ staged = 0
    /\ upload_verified = FALSE
    /\ final_verified = FALSE
    /\ warnings = <<>>
    /\ successful_transfers = 0
    /\ from_sess = "none"
    /\ to_sess = "none"
    /\ ret = 0
    /\ ops = <<>>
    /\ counted = {}
    /\ incs = [i \in 1..MaxFiles |-> 0]
    /\ quits = <<>>
    /\ connects = 0
    /\ setup_log = <<>>
    /\ sawShutdown = FALSE
    /\ dst0 = dst
    /\ clean = TRUE
    /\ InstanceIdle
    /\ SelectIdle
    /\ RuntimeIdle
    /\ ToolsIdle

\* request_shutdown / request_shutdown_with_signal, from the signal thread or
\* the socket listener, at any moment: before transfer_files is entered or
\* during the run.
RequestShutdown ==
    /\ pc # "done"
    /\ ~shutdown
    /\ shutdown' = TRUE
    /\ UNCHANGED <<pc, cfg, servers, locals, sess, tally, file_list, idx, ret,
                   ops, sawShutdown, instVars, unitVars>>

\* Mutant: the entry check is missing.
EntryNextNoCheck(requested) == "src_connect"

\* ftp_ops.rs:337-341: the check before any connection is opened.
EntryNext(requested) == IF requested THEN "done" ELSE "src_connect"

Start ==
    /\ pc = "start"
    /\ pc' = EntryNext(shutdown)
    /\ ret' = IF pc' = "done" THEN 0 ELSE ret
    /\ UNCHANGED <<shutdown, cfg, servers, locals, sess, tally, file_list, idx,
                   ops, sawShutdown, instVars, unitVars>>

\* The session setup of transfer_files, in order: connect_and_login for the
\* source, connect_and_login for the target, transfer_type(Binary) on the
\* source and on the target, nlst on the source.
SetupSteps == <<"src_connect", "src_login", "src_cwd",
                "dst_connect", "dst_login", "dst_cwd",
                "type_from", "type_to", "nlst">>

StepIndex(step) == CHOOSE i \in DOMAIN SetupSteps : SetupSteps[i] = step

\* The position after a setup step that succeeded.
AfterStep(step) ==
    IF StepIndex(step) = Len(SetupSteps) THEN "loop"
                                         ELSE SetupSteps[StepIndex(step) + 1]

\* The session and the operation a setup step issues.
SetupOp(step) ==
    CASE step = "src_connect" -> <<"src", "connect">>
      [] step = "src_login" -> <<"src", "login">>
      [] step = "src_cwd" -> <<"src", "cwd">>
      [] step = "dst_connect" -> <<"dst", "connect">>
      [] step = "dst_login" -> <<"dst", "login">>
      [] step = "dst_cwd" -> <<"dst", "cwd">>
      [] step = "type_from" -> <<"src", "transfer_type">>
      [] step = "type_to" -> <<"dst", "transfer_type">>
      [] step = "nlst" -> <<"src", "nlst">>

\* Mutant: the source session is quit before the target session.
CloseSessionsSourceFirst == <<"from", "to">>

\* ftp_ops.rs:401-402, 411-412, 440-441, 713-714: with both sessions open,
\* ftp_to.quit() comes before ftp_from.quit().
CloseSessions == <<"to", "from">>

LogSetup(step, ok) == setup_log' = Append(setup_log, SetupOp(step) \o <<ok>>)

\* Mutant: a failed setup step is logged and the setup goes on.
SetupNextIgnoresFailure(step, ok) == AfterStep(step)

\* ftp_ops.rs:46-73, 362-444: every setup step that fails ends the rule.
SetupNext(step, ok) == IF ok THEN AfterStep(step) ELSE "done"

\* connect_and_login for the source: Client::connect, login, cwd.
SrcConnect ==
    /\ pc = "src_connect"
    /\ connects' = connects + 1
    /\ \E ok \in BOOLEAN :
          /\ LogSetup(pc, ok)
          /\ pc' = SetupNext(pc, ok)
          /\ IF pc' # "done" THEN /\ from_sess' = "open"
                                  /\ UNCHANGED ret
                             ELSE /\ ret' = 0
                                  /\ UNCHANGED from_sess
    /\ UNCHANGED <<shutdown, cfg, servers, locals, to_sess, quits, tally,
                   file_list, idx, ops, sawShutdown, instVars, unitVars>>

\* login or cwd failed: connect_and_login quits the client and returns Err.
SrcLoginCwd ==
    /\ pc \in {"src_login", "src_cwd"}
    /\ \E ok \in BOOLEAN :
          /\ LogSetup(pc, ok)
          /\ pc' = SetupNext(pc, ok)
          /\ IF pc' # "done" THEN UNCHANGED <<from_sess, quits, ret>>
                             ELSE /\ from_sess' = "quit"
                                  /\ quits' = Append(quits, "from")
                                  /\ ret' = 0
    /\ UNCHANGED <<shutdown, cfg, servers, locals, to_sess, connects, tally,
                   file_list, idx, ops, sawShutdown, instVars, unitVars>>

\* connect_and_login for the target; on Err transfer_files quits ftp_from.
DstConnect ==
    /\ pc = "dst_connect"
    /\ connects' = connects + 1
    /\ \E ok \in BOOLEAN :
          /\ LogSetup(pc, ok)
          /\ pc' = SetupNext(pc, ok)
          /\ IF pc' # "done" THEN /\ to_sess' = "open"
                                  /\ UNCHANGED <<from_sess, quits, ret>>
                             ELSE /\ from_sess' = "quit"
                                  /\ quits' = Append(quits, "from")
                                  /\ ret' = 0
                                  /\ UNCHANGED to_sess
    /\ UNCHANGED <<shutdown, cfg, servers, locals, tally, file_list, idx, ops,
                   sawShutdown, instVars, unitVars>>

DstLoginCwd ==
    /\ pc \in {"dst_login", "dst_cwd"}
    /\ \E ok \in BOOLEAN :
          /\ LogSetup(pc, ok)
          /\ pc' = SetupNext(pc, ok)
          /\ IF pc' # "done" THEN UNCHANGED <<from_sess, to_sess, quits, ret>>
                             ELSE /\ to_sess' = "quit"
                                  /\ from_sess' = "quit"
                                  /\ quits' = quits \o CloseSessions
                                  /\ ret' = 0
    /\ UNCHANGED <<shutdown, cfg, servers, locals, connects, tally, file_list,
                   idx, ops, sawShutdown, instVars, unitVars>>

\* transfer_type(Binary) on the source, then on the target, then nlst.
SetupStep ==
    /\ pc \in {"type_from", "type_to", "nlst"}
    /\ \E ok \in BOOLEAN :
          /\ LogSetup(pc, ok)
          /\ pc' = SetupNext(pc, ok)
          /\ IF pc' # "done"
                THEN /\ file_list' = IF pc = "nlst" /\ ok THEN Listing ELSE file_list
                     /\ UNCHANGED <<from_sess, to_sess, quits, ret>>
                ELSE /\ to_sess' = "quit"
                     /\ from_sess' = "quit"
                     /\ quits' = quits \o CloseSessions
                     /\ ret' = 0
                     /\ UNCHANGED file_list
    /\ UNCHANGED <<shutdown, cfg, servers, locals, connects, tally, idx, ops,
                   sawShutdown, instVars, unitVars>>

\* Mutant: the loop head does not consult the shutdown flag.
LoopHeadNextNoShutdown(more, requested, matches) ==
    IF ~more THEN "finish"
    ELSE IF matches THEN "mdtm"
    ELSE "loop"

\* ftp_ops.rs:459-477: the loop head. The loop ends when the list is exhausted
\* or the shutdown flag is seen; a name the pattern rejects is skipped.
LoopHeadNext(more, requested, matches) ==
    IF ~more THEN "finish"
    ELSE IF requested THEN "finish"
    ELSE IF matches THEN "mdtm"
    ELSE "loop"

\* The log of a file that was eligible and went through with every operation
\* answered positively and every SIZE reply equal to the size of the source
\* file; only a first rename may have been refused (the target existed).
OpsClean(log) ==
    \/ log = <<>>
    \/ /\ Len(log) >= 2
       /\ \A i \in DOMAIN log :
             /\ log[i][4] \/ (log[i][2] = "rename"
                                 /\ \A j \in 1..(i - 1) : log[j][2] # "rename")
             /\ log[i][2] = "size" => log[i][5] = MaxSize

LoopHead ==
    /\ pc = "loop"
    /\ LET more == idx <= Len(file_list)
           next == LoopHeadNext(more, shutdown, more /\ filename \in regex)
       IN /\ pc' = next
          /\ sawShutdown' = (sawShutdown \/ (more /\ next = "finish"))
          /\ idx' = IF more /\ next = "loop" THEN idx + 1 ELSE idx
          \* a new iteration: its locals and the log of its operations start afresh
          /\ IF more /\ next # "finish"
                THEN /\ ops' = <<>>
                     /\ file_size' = 0
                     /\ staged' = 0
                     /\ upload_verified' = FALSE
                     /\ final_verified' = FALSE
                     /\ warnings' = <<>>
                     /\ clean' = (clean /\ OpsClean(ops))
                ELSE UNCHANGED <<ops, locals, clean>>
    /\ UNCHANGED <<shutdown, cfg, servers, sess, successful_transfers, counted,
                   incs, file_list, ret, instVars, unitVars>>

\* Mutant: a file exactly min_age_seconds old is skipped.
AgeEligibleStrictlyOlder(ok, secs, min_age_seconds) ==
    /\ ok
    /\ ~(secs < 0)
    /\ ~(Now < secs)
    /\ ~(Now - secs <= min_age_seconds)

\* check_file_should_transfer, after the regex: the age test on the MDTM reply.
AgeEligible(ok, secs, min_age_seconds) ==
    /\ ok
    /\ ~(secs < 0)
    /\ ~(Now < secs)
    /\ ~(Now - secs < min_age_seconds)

Mdtm ==
    /\ pc = "mdtm"
    /\ \E ok \in BOOLEAN, secs \in MTimes :
          /\ Issue("src", "mdtm", filename, ok, 0)
          /\ IF AgeEligible(ok, secs, age)
                THEN pc' = "size" /\ UNCHANGED idx
                ELSE Continue
    /\ UNCHANGED <<shutdown, cfg, servers, locals, sess, tally, file_list, ret,
                   sawShutdown, instVars, unitVars>>

Size ==
    /\ pc = "size"
    /\ \E ok \in BOOLEAN :
          /\ Issue("src", "size", filename, ok, IF ok /\ Has(src, filename) THEN src[filename] ELSE 0)
          /\ IF ok /\ Has(src, filename)
                THEN /\ file_size' = src[filename]
                     /\ pc' = "retr"
                     /\ UNCHANGED idx
                ELSE /\ Continue
                     /\ UNCHANGED file_size
    /\ UNCHANGED <<shutdown, cfg, servers, staged, upload_verified,
                   final_verified, warnings, sess, tally, file_list, ret,
                   sawShutdown,
                   instVars, unitVars>>

\* ftp_ops.rs:504-546: retr into the buffer; the stream may deliver fewer bytes
\* than SIZE replied. staged is buffer.size().
Retr ==
    /\ pc = "retr"
    /\ \E ok \in BOOLEAN, short \in 0..1 :
          /\ Issue("src", "retr", filename, ok, 0)
          /\ IF ok /\ Has(src, filename)
                THEN /\ staged' = src[filename] - short
                     /\ pc' = "put"
                     /\ UNCHANGED idx
                ELSE /\ Continue
                     /\ UNCHANGED staged
    /\ UNCHANGED <<shutdown, cfg, servers, file_size, upload_verified,
                   final_verified, warnings, sess, tally, file_list, ret,
                   sawShutdown,
                   instVars, unitVars>>

\* ftp_ops.rs:559-565: the one WARNING line of the engine, logged when
\* put_file reports another count than the staged one.
PutWarnings(bytes_written, expected, reported) ==
    IF bytes_written # expected THEN <<"Size mismatch">> ELSE <<>>

\* ftp_ops.rs:550-565, 692-699: put_file to the temporary name. put_file
\* reports the bytes it sent; the server stores at most those, maybe fewer; a
\* failed put_file may leave a partial temporary file behind.
Put ==
    /\ pc = "put"
    /\ \E ok \in BOOLEAN, short \in 0..1, unsent \in 0..1, created \in BOOLEAN :
          /\ staged - short >= 0
          /\ unsent <= short
          /\ ok => created
          /\ Issue("dst", "put_file", tmp_filename(filename), ok, 0)
          /\ dst' = IF created
                       THEN Store(dst, tmp_filename(filename), staged - short)
                       ELSE dst
          /\ warnings' = IF ok THEN PutWarnings(staged - unsent, staged, file_size)
                                ELSE warnings
          /\ pc' = IF ok THEN "size_tmp" ELSE "rm_tmp"
    /\ UNCHANGED <<shutdown, cfg, src, file_size, staged, upload_verified,
                   final_verified, sess, tally, file_list, idx, ret,
                   sawShutdown, instVars, unitVars>>

\* ftp_ops.rs:575-601: the upload verification.
UploadVerified(ok, actual_size, expected) == ok /\ actual_size = expected

\* Mutant: the rename is attempted whatever the verification said.
AfterUploadVerifyAlwaysRename(verified) == "rename1"

\* ftp_ops.rs:604, 680-690: rename only when the upload was verified.
AfterUploadVerify(verified) == IF verified THEN "rename1" ELSE "rm_tmp"

SizeTmp ==
    /\ pc = "size_tmp"
    /\ \E reply \in BOOLEAN :
          LET ok == reply /\ Has(dst, tmp_filename(filename))
              actual == IF ok THEN dst[tmp_filename(filename)] ELSE 0
          IN /\ Issue("dst", "size", tmp_filename(filename), ok, actual)
             /\ upload_verified' = UploadVerified(ok, actual, staged)
             /\ pc' = AfterUploadVerify(upload_verified')
    /\ UNCHANGED <<shutdown, cfg, servers, file_size, staged, final_verified,
                   warnings,
                   sess, tally, file_list, idx, ret, sawShutdown,
                   instVars, unitVars>>

\* Mutant: no fallback, a failed first rename gives the file up.
AfterRename1NoFallback(ok) == IF ok THEN "size_final" ELSE "rm_tmp"

\* ftp_ops.rs:607-623: the first rename.
AfterRename1(ok) == IF ok THEN "size_final" ELSE "rm_orig"

Rename1 ==
    /\ pc = "rename1"
    /\ \E reply \in BOOLEAN, lost \in 0..1 :
          LET ok == reply /\ Has(dst, tmp_filename(filename))
          IN /\ ok => dst[tmp_filename(filename)] - lost >= 0
             /\ ~ok => lost = 0
             /\ Issue("dst", "rename", tmp_filename(filename), ok, 0)
             /\ dst' = IF ok THEN Renamed(dst, tmp_filename(filename), filename, lost)
                             ELSE dst
             /\ pc' = AfterRename1(ok)
    /\ UNCHANGED <<shutdown, cfg, src, locals, sess, tally, file_list, idx, ret,
                   sawShutdown, instVars, unitVars>>

\* ftp_ops.rs:646-651: the fallback removes the file under the original name;
\* its result only decides a log line.
\* Mutant: once the existing file is removed the temporary file is cleaned up
\* instead of being renamed again.
AfterRmOrigGivesUp(ok) == IF ok THEN "rm_tmp" ELSE "rename2"

\* ftp_ops.rs:645-652: whatever rm(original) answered, the rename is retried.
AfterRmOrig(ok) == "rename2"

RmOrig ==
    /\ pc = "rm_orig"
    /\ \E reply \in BOOLEAN :
          LET ok == reply /\ Has(dst, filename)
          IN /\ Issue("dst", "rm", filename, ok, 0)
             /\ dst' = IF ok THEN Remove(dst, filename) ELSE dst
             /\ pc' = AfterRmOrig(ok)
    /\ UNCHANGED <<shutdown, cfg, src, locals, sess, tally, file_list, idx, ret,
                   sawShutdown, instVars, unitVars>>

\* Mutant: a failed second rename ends the loop.
AfterRename2EndsRule(ok) == IF ok THEN "size_final" ELSE "finish"

\* ftp_ops.rs:653-677: the second rename.
AfterRename2(ok) == IF ok THEN "size_final" ELSE "rm_tmp"

Rename2 ==
    /\ pc = "rename2"
    /\ \E reply \in BOOLEAN, lost \in 0..1 :
          LET ok == reply /\ Has(dst, tmp_filename(filename))
          IN /\ ok => dst[tmp_filename(filename)] - lost >= 0
             /\ ~ok => lost = 0
             /\ Issue("dst", "rename", tmp_filename(filename), ok, 0)
             /\ dst' = IF ok THEN Renamed(dst, tmp_filename(filename), filename, lost)
                             ELSE dst
             /\ pc' = AfterRename2(ok)
    /\ UNCHANGED <<shutdown, cfg, src, locals, sess, tally, file_list, idx, ret,
                   sawShutdown, instVars, unitVars>>

\* Mutant: the file is counted by handle_successful_rename and by its caller.
CountTwice ==
    /\ successful_transfers' = successful_transfers + 2
    /\ counted' = counted \cup {filename}
    /\ incs' = [incs EXCEPT ![idx] = @ + 2]
    /\ UNCHANGED clean

\* successful_transfers += 1 for the current file (ftp_ops.rs:620, 663).
Count ==
    /\ successful_transfers' = successful_transfers + 1
    /\ counted' = counted \cup {filename}
    /\ incs' = [incs EXCEPT ![idx] = @ + 1]
    /\ UNCHANGED clean

\* Mutant: any answer to size(original) passes, the sizes are not compared.
verify_final_file_no_compare(ok, actual_size, expected) == ok

\* Mutant: the verification passes also when size(original) fails.
verify_final_file_always(ok, actual_size, expected) == TRUE

\* verify_final_file: size(original) must answer the staged byte count.
verify_final_file(ok, actual_size, expected) == ok /\ actual_size = expected

\* Mutant: the source is deleted before the verification result is looked at.
handle_successful_rename_delete_first(verified, del) ==
    IF del THEN "rm_src" ELSE IF verified THEN "count" ELSE "skip"

\* handle_successful_rename after the verification: delete the source only
\* when verified and asked to; return the verification result.
handle_successful_rename(verified, del) ==
    IF verified THEN (IF del THEN "rm_src" ELSE "count") ELSE "skip"

SizeFinal ==
    /\ pc = "size_final"
    /\ \E reply \in BOOLEAN :
          LET ok == reply /\ Has(dst, filename)
              actual == IF ok THEN dst[filename] ELSE 0
              verified == verify_final_file(ok, actual, staged)
              next == handle_successful_rename(verified, delete)
          IN /\ Issue("dst", "size", filename, ok, actual)
             /\ final_verified' = verified
             /\ CASE next = "rm_src" -> /\ pc' = "rm_src"
                                        /\ UNCHANGED <<idx, tally>>
                  [] next = "count" -> Count /\ Continue
                  [] OTHER -> Continue /\ UNCHANGED tally
    /\ UNCHANGED <<shutdown, cfg, servers, file_size, staged, upload_verified,
                   warnings, sess, file_list, ret, sawShutdown, instVars,
                   unitVars>>

\* Mutant: a file whose source could not be deleted is not counted.
SourceRmCountsOnlyDeleted(ok) == ok

\* ftp_ops.rs:280-296: the result of rm on the source decides a log line
\* only; handle_successful_rename returns true either way.
SourceRmCounts(ok) == TRUE

\* rm on the source, then the caller counts the file.
RmSrc ==
    /\ pc = "rm_src"
    /\ \E reply \in BOOLEAN :
          LET ok == reply /\ Has(src, filename)
          IN /\ Issue("src", "rm", filename, ok, 0)
             /\ src' = IF ok THEN Remove(src, filename) ELSE src
             /\ IF SourceRmCounts(ok) THEN Count ELSE UNCHANGED tally
    /\ Continue
    /\ UNCHANGED <<shutdown, cfg, dst, locals, sess, file_list, ret,
                   sawShutdown, instVars, unitVars>>

\* ftp_ops.rs:675, 689, 698: best-effort removal of the temporary file.
RmTmp ==
    /\ pc = "rm_tmp"
    /\ \E reply \in BOOLEAN :
          LET ok == reply /\ Has(dst, tmp_filename(filename))
          IN /\ Issue("dst", "rm", tmp_filename(filename), ok, 0)
             /\ dst' = IF ok THEN Remove(dst, tmp_filename(filename)) ELSE dst
    /\ Continue
    /\ UNCHANGED <<shutdown, cfg, src, locals, sess, tally, file_list, ret,
                   sawShutdown, instVars, unitVars>>

\* ftp_ops.rs:713-733: quit the target, quit the source, return the tally.
Finish ==
    /\ pc = "finish"
    /\ to_sess' = "quit"
    /\ from_sess' = "quit"
    /\ quits' = quits \o CloseSessions
    /\ ret' = successful_transfers
    /\ pc' = "done"
    /\ UNCHANGED <<shutdown, cfg, servers, locals, connects, setup_log, tally,
                   file_list, idx, ops, sawShutdown, instVars, unitVars>>

Next ==
    \/ RequestShutdown
    \/ Start
    \/ SrcConnect
    \/ SrcLoginCwd
    \/ DstConnect
    \/ DstLoginCwd
    \/ SetupStep
    \/ LoopHead
    \/ Mdtm
    \/ Size
    \/ Retr
    \/ Put
    \/ SizeTmp
    \/ Rename1
    \/ RmOrig
    \/ Rename2
    \/ SizeFinal
    \/ RmSrc
    \/ RmTmp
    \/ Finish

Spec == Init /\ [][Next]_vars

----
\* Reading the log of the file last worked on.

OpsFile == ops[1][3]
Head3(e) == <<e[1], e[2], e[3]>>
OpsTmp == tmp_filename(OpsFile)

\* No operation is in flight for the file the log is about.
FileEnded == pc \in {"loop", "finish", "done"}

SrcRmAt(i) == ops[i][1] = "src" /\ ops[i][2] = "rm"
DstRmAt(i) == ops[i][1] = "dst" /\ ops[i][2] = "rm"
RenameAt(i) == ops[i][1] = "dst" /\ ops[i][2] = "rename"
TmpSizeAt(i) == Head3(ops[i]) = <<"dst", "size", OpsTmp>>
FinalSizeAt(i) == Head3(ops[i]) = <<"dst", "size", OpsFile>>
SizePassed(i) == ops[i][4] /\ ops[i][5] = staged

\* ---------------------------------------------------------------- C1
\* C1: every rm on the source comes after a passed upload verification, a
\* successful rename and a passed post-rename verification of that file, in
\* this order, and only with the delete flag set; every listed file that is
\* not counted as successful is still present on the source.
C1_SourceRmOnlyAfterVerification ==
    /\ \A i \in DOMAIN ops :
          SrcRmAt(i) =>
             /\ delete
             /\ ops[i][3] = OpsFile
             /\ \E a, b, c \in 1..(i - 1) :
                   /\ a < b /\ b < c
                   /\ TmpSizeAt(a) /\ SizePassed(a)
                   /\ RenameAt(b) /\ ops[b][4]
                   /\ FinalSizeAt(c) /\ SizePassed(c)
    /\ \A k \in DOMAIN file_list :
          file_list[k] \notin counted => Has(src, file_list[k])

\* A run that deleted a transferred file from the source and ended with
\* another listed file not counted.
C1_Witness ==
    /\ pc = "done"
    /\ \E i \in DOMAIN ops : SrcRmAt(i) /\ ops[i][4] /\ ~Has(src, OpsFile)
    /\ \E k \in DOMAIN file_list : file_list[k] \notin counted

\* ---------------------------------------------------------------- C2
\* C2: when a file has just been counted as successful, the destination holds
\* it under the original name with the byte count retr delivered, and its
\* temporary name is gone.
C2_CountedFileIsCommitted ==
    (pc = "loop" /\ ops # <<>> /\ OpsFile \in counted) =>
       /\ Has(dst, OpsFile)
       /\ dst[OpsFile] = staged
       /\ ~Has(dst, OpsTmp)

\* A counted file that replaced a file the destination already held.
C2_Witness ==
    /\ pc = "loop"
    /\ ops # <<>>
    /\ OpsFile \in counted
    /\ Has(dst0, OpsFile)
    /\ dst[OpsFile] # dst0[OpsFile]

\* ---------------------------------------------------------------- C4
\* C4: after size(temp) answered another size than the staged byte count, or
\* failed, the only further operation for the file is rm(temp) on the
\* destination: no rename, no rm on the source, the file under the original
\* name is as it was before the run, the file is not counted, and the loop is
\* at the next name.
C4_UploadVerificationFailure ==
    \A i \in DOMAIN ops :
       (TmpSizeAt(i) /\ ~SizePassed(i)) =>
          /\ \A j \in DOMAIN ops : ~RenameAt(j) /\ ~SrcRmAt(j)
          /\ Len(ops) <= i + 1
          /\ Len(ops) = i => pc = "rm_tmp"
          /\ Len(ops) = i + 1 =>
                /\ Head3(ops[i + 1]) = <<"dst", "rm", OpsTmp>>
                /\ FileEnded
          /\ pc = "loop" => (idx > 1 /\ file_list[idx - 1] = OpsFile)
          /\ OpsFile \notin counted
          /\ successful_transfers = Cardinality(counted)
          /\ Has(src, OpsFile)
          /\ Has(dst, OpsFile) = Has(dst0, OpsFile)
          /\ Has(dst, OpsFile) => dst[OpsFile] = dst0[OpsFile]

\* size(temp) answered a size that differs from the staged byte count, the
\* temporary file was removed and the loop went on.
C4_Witness ==
    /\ pc = "loop"
    /\ \E i \in DOMAIN ops :
          /\ TmpSizeAt(i)
          /\ ops[i][4]
          /\ ops[i][5] # staged
          /\ Len(ops) = i + 1
          /\ ops[i + 1][4]
          /\ ~Has(dst, OpsTmp)

\* ---------------------------------------------------------------- C5
FirstRenameFailedAt(i) ==
    /\ RenameAt(i)
    /\ ~ops[i][4]
    /\ \A j \in 1..(i - 1) : ~RenameAt(j)

\* C5: after a failed first rename the engine issues rm(original), then one
\* more rename(temp, original) and no further rename; after a successful
\* second rename size(original) follows and the file is counted when it
\* passes; after a failed second rename rm(temp) follows, nothing else, and
\* the file is not counted.
C5_RenameFallback ==
    \A i \in DOMAIN ops :
       FirstRenameFailedAt(i) =>
          /\ Len(ops) = i => pc = "rm_orig"
          /\ Len(ops) > i => Head3(ops[i + 1]) = <<"dst", "rm", OpsFile>>
          /\ Len(ops) = i + 1 => pc = "rename2"
          /\ Len(ops) > i + 1 => Head3(ops[i + 2]) = <<"dst", "rename", OpsTmp>>
          /\ \A j \in DOMAIN ops : j > i + 2 => ~RenameAt(j)
          /\ (Len(ops) > i + 1 /\ ops[i + 2][4]) =>
                /\ Len(ops) = i + 2 => pc = "size_final"
                /\ Len(ops) > i + 2 => FinalSizeAt(i + 3)
                /\ (Len(ops) > i + 2 /\ SizePassed(i + 3) /\ FileEnded)
                      => OpsFile \in counted
          /\ (Len(ops) > i + 1 /\ ~ops[i + 2][4]) =>
                /\ Len(ops) = i + 2 => pc = "rm_tmp"
                /\ Len(ops) > i + 2 =>
                      /\ Head3(ops[i + 3]) = <<"dst", "rm", OpsTmp>>
                      /\ Len(ops) = i + 3
                      /\ FileEnded
                /\ OpsFile \notin counted

\* The target existed: rename #1 failed, rm(original) succeeded, rename #2
\* succeeded, the verification passed and the file was counted.
C5_Witness ==
    /\ FileEnded
    /\ \E i \in DOMAIN ops :
          /\ FirstRenameFailedAt(i)
          /\ Len(ops) >= i + 3
          /\ ops[i + 1][4]
          /\ ops[i + 2][4]
          /\ SizePassed(i + 3)
          /\ Has(dst0, OpsFile)
          /\ OpsFile \in counted

\* ---------------------------------------------------------------- C6
FinalSizeFailedAt(i) == FinalSizeAt(i) /\ ~SizePassed(i)

C7_ShutdownStopsLoop ==
    [][ /\ (pc = "loop" /\ shutdown /\ idx <= Len(file_list)) =>
              (pc' = "finish" /\ UNCHANGED <<ops, src, dst, tally, idx>>)
        /\ (pc = "finish" /\ shutdown) =>
              /\ pc' = "done"
              /\ ret' = successful_transfers
              /\ to_sess' = "quit"
              /\ from_sess' = "quit"
              /\ UNCHANGED <<ops, src, dst, tally, idx>>
        /\ pc = "done" => UNCHANGED <<ops, src, dst, tally, ret>>
      ]_vars

\* Shutdown was seen after one file had been counted and before the next
\* listed name was started; the function returned 1.
C7_Witness ==
    /\ pc = "done"
    /\ sawShutdown
    /\ idx <= Len(file_list)
    /\ ret = 1
    /\ Cardinality(counted) = 1
    /\ quits = <<"to", "from">>

\* ---------------------------------------------------------------- C8
\* C8: called with the shutdown flag set, transfer_files returns 0 in its
\* first step, with no connection attempted and no session opened.
C8_ShutdownBeforeStart ==
    [][ (pc = "start" /\ shutdown) =>
           /\ pc' = "done"
           /\ ret' = 0
           /\ connects' = 0
           /\ from_sess' = "none"
           /\ to_sess' = "none"
      ]_vars

\* The function has returned without ever trying to connect.
C8_Witness ==
    /\ pc = "done"
    /\ shutdown
    /\ connects = 0
    /\ ret = 0

\* --------------------------------------------------------------- C10
\* C10: the tally never exceeds the number of listed names, no listed name is
\* counted more than once, and the returned value is the tally.
C10_TallyBounded ==
    /\ successful_transfers <= Len(file_list)
    /\ \A k \in DOMAIN incs : incs[k] <= 1
    /\ successful_transfers = Cardinality({k \in DOMAIN incs : incs[k] > 0})
    /\ pc = "done" => (ret <= Len(file_list) /\ ret <= successful_transfers)

\* Every listed name was counted, the last one through the fallback path.
C10_Witness ==
    /\ pc = "done"
    /\ ret = Len(file_list)
    /\ ret = MaxFiles
    /\ \E i \in DOMAIN ops : FirstRenameFailedAt(i)

\* --------------------------------------------------------------- C13
\* Positions inside one iteration of the loop over file_list.
PerFile == {"mdtm", "size", "retr", "put", "size_tmp", "rename1", "rm_orig",
            "rename2", "size_final", "rm_src", "rm_tmp"}

\* C13: no step of an iteration, whatever failed in it, leaves the loop: the
\* iteration ends at the loop head with the index on the next name; the loop
\* is left only from its head, with the list exhausted or the shutdown flag
\* set; at a loop head with a name left and no shutdown, either that name is
\* examined or a shutdown request arrives.
C13_FailureKeepsRule ==
    [][ /\ pc \in PerFile => pc' \in PerFile \cup {"loop"}
        /\ (pc \in PerFile /\ pc' = "loop") =>
              (idx' = idx + 1 /\ file_list' = file_list /\ shutdown' = shutdown)
        /\ (pc # "finish" /\ pc' = "finish") =>
              (pc = "loop" /\ (idx > Len(file_list) \/ shutdown))
        /\ (pc = "loop" /\ idx <= Len(file_list) /\ ~shutdown) =>
              \/ pc' = "mdtm" /\ idx' = idx /\ file_list[idx] \in regex
              \/ pc' = "loop" /\ idx' = idx + 1 /\ file_list[idx] \notin regex
              \/ shutdown' /\ pc' = pc /\ idx' = idx
      ]_vars

\* The first name failed after its upload and left its temporary file behind;
\* the second name was then transferred and counted.
C13_Witness ==
    /\ pc = "done"
    /\ ~shutdown
    /\ Len(file_list) = MaxFiles
    /\ file_list[1] \notin counted
    /\ Has(dst, tmp_filename(file_list[1]))
    /\ file_list[2] \in counted
    /\ ret = Cardinality(counted)

\* --------------------------------------------------------------- C14
SetupFailed == \E i \in DOMAIN setup_log : ~setup_log[i][3]

\* C14: once a setup operation has failed, it is the last setup operation,
\* transfer_files has returned 0, no operation was issued for any file and
\* both directories are as they were.
C14_SetupFailureReturnsZero ==
    SetupFailed =>
       /\ ~setup_log[Len(setup_log)][3]
       /\ \A i \in 1..(Len(setup_log) - 1) : setup_log[i][3]
       /\ pc = "done"
       /\ ret = 0
       /\ ops = <<>>
       /\ idx = 1
       /\ successful_transfers = 0
       /\ DOMAIN src = Names
       /\ dst = dst0

\* nlst failed after every earlier setup step had succeeded.
C14_Witness ==
    /\ pc = "done"
    /\ Len(setup_log) = Len(SetupSteps)
    /\ setup_log[Len(setup_log)] = <<"src", "nlst", FALSE>>

\* --------------------------------------------------------------- C15
Connected(side) == \E i \in DOMAIN setup_log : setup_log[i] = <<side, "connect", TRUE>>
QuitCount(s) == Cardinality({i \in DOMAIN quits : quits[i] = s})

\* C15: when transfer_files has returned, a session is quit once if its
\* connect succeeded and never otherwise, no session is left open, and with
\* both sessions connected the target is quit before the source.
C15_SessionsClosedOnce ==
    pc = "done" =>
       /\ QuitCount("from") = (IF Connected("src") THEN 1 ELSE 0)
       /\ QuitCount("to") = (IF Connected("dst") THEN 1 ELSE 0)
       /\ from_sess = (IF Connected("src") THEN "quit" ELSE "none")
       /\ to_sess = (IF Connected("dst") THEN "quit" ELSE "none")
       /\ (Connected("src") /\ Connected("dst")) => quits = <<"to", "from">>

\* The target's cwd failed with both sessions connected: connect_and_login
\* quit the target, transfer_files quit the source.
C15_Witness ==
    /\ pc = "done"
    /\ setup_log # <<>>
    /\ setup_log[Len(setup_log)] = <<"dst", "cwd", FALSE>>
    /\ quits = <<"to", "from">>

\* --------------------------------------------------------------- C16
\* C16: when rm on the source failed, the verification had passed and the
\* delete flag is set, the file is counted once, it is still on the source,
\* and the loop is at the next name; the loop was not left.
C16_SourceRmFailureStillCounts ==
    \A i \in DOMAIN ops :
       (SrcRmAt(i) /\ ~ops[i][4]) =>
          /\ delete
          /\ i = Len(ops)
          /\ FinalSizeAt(i - 1) /\ SizePassed(i - 1)
          /\ OpsFile \in counted
          /\ successful_transfers = Cardinality(counted)
          /\ Has(src, OpsFile)
          /\ FileEnded
          /\ pc = "loop" => (idx > 1 /\ file_list[idx - 1] = OpsFile)

\* rm on the source failed for the first name; the second name was taken up
\* and the run ended with both counted.
C16_Witness ==
    /\ pc = "done"
    /\ delete
    /\ Len(file_list) = MaxFiles
    /\ Has(src, file_list[1])
    /\ file_list[1] \in counted
    /\ ret = MaxFiles

\* --------------------------------------------------------------- C22
\* The place of an operation in the sequence of one file: mdtm, size, retr,
\* put_file(temp), size(temp), rename, [rm(original), rename,]
\* size(original), then rm(source) or, on a failure, rm(temp).
StepRank(log, i) ==
    LET e == log[i]
        f == log[1][3]
    IN CASE Head3(e) = <<"src", "mdtm", f>> -> 1
         [] Head3(e) = <<"src", "size", f>> -> 2
         [] Head3(e) = <<"src", "retr", f>> -> 3
         [] Head3(e) = <<"dst", "put_file", tmp_filename(f)>> -> 4
         [] Head3(e) = <<"dst", "size", tmp_filename(f)>> -> 5
         [] Head3(e) = <<"dst", "rename", tmp_filename(f)>> ->
               (IF \E j \in 1..(i - 1) : log[j][2] = "rename" THEN 8 ELSE 6)
         [] Head3(e) = <<"dst", "rm", f>> -> 7
         [] Head3(e) = <<"dst", "size", f>> -> 9
         [] Head3(e) = <<"src", "rm", f>> -> 10
         [] Head3(e) = <<"dst", "rm", tmp_filename(f)>> -> 10
         [] OTHER -> 0

PlaceInDirectory(n) == CHOOSE k \in DOMAIN AllNames : AllNames[k] = n

\* C22: the list is worked through in the order of the source directory, one
\* index at a time; every operation is issued for the name the loop is at and
\* comes later in the sequence of a file than the operations already issued
\* for it; the log of a file is complete before the index moves on.
C22_OperationOrder ==
    [][ /\ idx' \in {idx, idx + 1}
        /\ file_list' # file_list =>
              \A i, j \in DOMAIN file_list' :
                 i < j => PlaceInDirectory(file_list'[i]) < PlaceInDirectory(file_list'[j])
        /\ (ops' # ops /\ ops' # <<>>) =>
              /\ pc \in PerFile
              /\ Len(ops') = Len(ops) + 1
              /\ SubSeq(ops', 1, Len(ops)) = ops
              /\ ops'[1][3] = file_list[idx]
              /\ StepRank(ops', Len(ops')) > 0
              /\ ops # <<>> => StepRank(ops', Len(ops')) > StepRank(ops, Len(ops))
        /\ (ops' # ops /\ ops' = <<>>) => (pc = "loop" /\ pc' \in PerFile)
      ]_vars

\* The second listed name went through the whole sequence, fallback
\* included, after the first name had been worked on.
C22_Witness ==
    /\ pc = "loop"
    /\ idx = 3
    /\ Len(ops) = 10
    /\ SrcRmAt(10)
    /\ OpsFile = file_list[2]
    /\ file_list[1] \in counted

\* --------------------------------------------------------------- C27
\* A second run for a rule: with the delete flag off the source is as it
\* was, and the destination is any directory; among them the directories a
\* first run leaves, where every matching name has the size of its source.
\* One run with the delete flag on is there for comparison.
InitRerun ==
    /\ pc = "start"
    /\ shutdown = FALSE
    /\ delete \in BOOLEAN
    /\ regex \in {Names, Names \ {AllNames[1]}}
    /\ delete => regex = Names
    /\ age = MaxAge
    /\ src = [n \in Names |-> MaxSize]
    /\ dst \in {[n \in old |-> IF n \in fresh THEN MaxSize ELSE OldSize] :
                  old \in SUBSET Names, fresh \in SUBSET Names}
    /\ delete => dst = [n \in Names |-> MaxSize]
    /\ file_list = <<>>
    /\ idx = 1
    /\ file_size = 0
    /\ staged = 0
    /\ upload_verified = FALSE
    /\ final_verified = FALSE
    /\ warnings = <<>>
    /\ successful_transfers = 0
    /\ from_sess = "none"
    /\ to_sess = "none"
    /\ ret = 0
    /\ ops = <<>>
    /\ counted = {}
    /\ incs = [i \in 1..MaxFiles |-> 0]
    /\ quits = <<>>
    /\ connects = 0
    /\ setup_log = <<>>
    /\ sawShutdown = FALSE
    /\ dst0 = dst
    /\ clean = TRUE
    /\ InstanceIdle
    /\ SelectIdle
    /\ RuntimeIdle
    /\ ToolsIdle

SpecRerun == InitRerun /\ [][Next]_vars

\* The destination a run leaves when nothing goes wrong: every matching name
\* of the source under its own name with the size of the source file.
RunResult(d) ==
    [n \in DOMAIN d \cup (regex \cap DOMAIN src) |->
        IF n \in regex \cap DOMAIN src THEN src[n] ELSE d[n]]

\* The run went through the whole listing and nothing was refused.
CleanRun ==
    /\ pc = "done"
    /\ ~delete
    /\ file_list = Listing
    /\ idx > Len(file_list)
    /\ clean
    /\ OpsClean(ops)

\* C27: a run in which every operation succeeds (a first rename refused
\* because the target exists apart) leaves each matching name with the size
\* of its source file and no temporary name; started on the directory such a
\* run has left, it leaves that directory as it was.
C27_RerunIdempotent ==
    CleanRun =>
       /\ dst = RunResult(dst0)
       /\ DOMAIN dst \cap TmpNames = {}
       /\ dst0 = RunResult(dst0) => dst = dst0

\* A second run over the result of a first one, the last name committed by
\* the fallback (rm of the existing file, second rename).
C27_Witness ==
    /\ CleanRun
    /\ regex = Names
    /\ counted = Names
    /\ dst0 = RunResult(dst0)
    /\ \E i \in DOMAIN ops : DstRmAt(i) /\ ops[i][3] = OpsFile

\* The same with the direct rename.
C27_WitnessDirect ==
    /\ CleanRun
    /\ regex = Names
    /\ counted = Names
    /\ dst0 = RunResult(dst0)
    /\ \A i \in DOMAIN ops : ~DstRmAt(i)

----
\* The staged byte count and the size the source's SIZE replied.

\* retr delivered another number of bytes than SIZE had replied.
StagedDiffers == staged # file_size

\* C31 (as stated): when the byte count staged from the source stream differs
\* from the size reported before retr, a warning is logged before the upload
\* goes on. The code logs "Uploading file" with the staged count and compares
\* nothing with the earlier size, which the new file_size shadows
\* (ftp_ops.rs:540-546).
C31_AsStated ==
    (pc = "put" /\ StagedDiffers) => warnings # <<>>

\* What the code does: nothing is logged about the difference, the upload goes
\* on, and both verifications expect the staged count.
C31_AsEnforced ==
    /\ pc = "put" => warnings = <<>>
    /\ upload_verified => \E i \in DOMAIN ops : TmpSizeAt(i) /\ SizePassed(i)
    /\ final_verified => \E i \in DOMAIN ops : FinalSizeAt(i) /\ SizePassed(i)
    /\ warnings # <<>> => \E i \in DOMAIN ops : ops[i][2] = "put_file" /\ ops[i][4]

\* A file whose staged count is short of the reported size is uploaded,
\* verified twice against the staged count and counted, with no warning.
C31_ShortFileCounted ==
    /\ FileEnded
    /\ ops # <<>>
    /\ StagedDiffers
    /\ final_verified
    /\ OpsFile \in counted
    /\ dst[OpsFile] = staged
    /\ warnings = <<>>

----
\* A file the destination already held under the original name.

\* The file the log is about is done with, and the destination held a file of
\* its name before the run.
ExistingFileDone == FileEnded /\ ops # <<>> /\ Has(dst0, OpsFile)

\* C37 (as stated): once the engine is done with a file whose name the
\* destination already held, the destination still holds a file under that
\* name. When the first rename is refused the existing file is removed
\* (ftp_ops.rs:646); when the second rename is refused too (ftp_ops.rs:666),
\* no session having been lost, only the temporary file is cleaned up and the
\* name is gone.
C37_AsStated ==
    ExistingFileDone => Has(dst, OpsFile)

\* What the code gives: the name is missing only after the fallback removed
\* the existing file and the second rename was refused; the file is then not
\* counted, and the source still has it.
C37_AsEnforced ==
    (ExistingFileDone /\ ~Has(dst, OpsFile)) =>
       /\ \E i, j \in DOMAIN ops :
             /\ i < j
             /\ DstRmAt(i) /\ ops[i][3] = OpsFile /\ ops[i][4]
             /\ RenameAt(j) /\ ~ops[j][4]
       /\ OpsFile \notin counted
       /\ Has(src, OpsFile)

\* The existing file was removed, the second rename was refused, and the
\* temporary file was cleaned up: neither name is left at the destination.
C37_ExistingFileLost ==
    /\ ExistingFileDone
    /\ ~Has(dst, OpsFile)
    /\ ~Has(dst, OpsTmp)
    /\ OpsFile \notin counted

----
\* The single-instance guard: check_single_instance, signal delivery, and the
\* exit of a process (cleanup_lock_file), for two processes of one user.

\* The engine while only the guard is observed.
EngineOff ==
    /\ pc = "off"
    /\ shutdown = FALSE
    /\ delete = FALSE
    /\ regex = {}
    /\ age = 0
    /\ src = <<>>
    /\ dst = <<>>
    /\ file_list = <<>>
    /\ idx = 1
    /\ file_size = 0
    /\ staged = 0
    /\ upload_verified = FALSE
    /\ final_verified = FALSE
    /\ warnings = <<>>
    /\ successful_transfers = 0
    /\ from_sess = "none"
    /\ to_sess = "none"
    /\ ret = 0
    /\ ops = <<>>
    /\ counted = {}
    /\ incs = <<>>
    /\ quits = <<>>
    /\ connects = 0
    /\ setup_log = <<>>
    /\ sawShutdown = FALSE
    /\ dst0 = <<>>
    /\ clean = TRUE

\* A process exists from its start until it exits or is killed.
Alive(q) == q \in Procs /\ ipc[q] \notin {"idle", "exited", "failed", "killed"}

\* The signal handler thread exists once check_single_instance has installed
\* it (instance.rs:257-268).
HandlerInstalled(q) ==
    ipc[q] \in {"running", "cleanup_unlock", "cleanup_sock", "cleanup_pid"}

\* The listening socket exists from bind until the process ends.
Listening(q) ==
    /\ q \in Procs
    /\ ipc[q] \in {"install", "running", "cleanup_unlock", "cleanup_sock",
                   "cleanup_pid"}

\* flock: closing the descriptor, or the end of the process, releases the lock.
Released(p) == [i \in Inodes |-> IF lockHolder[i] = p THEN None ELSE lockHolder[i]]

\* A file the PID path does not name and no process has open.
FreshInode == CHOOSE i \in Inodes : i # path /\ \A q \in Procs : fd[q] # i

Log(p, e) == evLog' = [evLog EXCEPT ![p] = Append(@, e)]

\* check_single_instance returns Err; main logs it and exits with status 1,
\* which closes the lock file.
Fail(p) ==
    /\ ipc' = [ipc EXCEPT ![p] = "failed"]
    /\ result' = [result EXCEPT ![p] = "err"]
    /\ lockHolder' = Released(p)

InitInstance ==
    /\ EngineOff
    /\ SelectIdle
    /\ RuntimeIdle
    /\ ToolsIdle
    /\ ipc = [p \in Procs |-> "idle"]
    /\ fd = [p \in Procs |-> NoInode]
    /\ \E leftover \in BOOLEAN :
          /\ path = IF leftover THEN "i1" ELSE NoInode
          /\ content = [i \in Inodes |-> IF leftover /\ i = "i1" THEN Old ELSE ""]
    /\ lockHolder = [i \in Inodes |-> None]
    /\ sockOwner \in {None, Old}
    /\ pending = [p \in Procs |-> {}]
    /\ isd = [p \in Procs |-> FALSE]
    /\ polls = [p \in Procs |-> 0]
    /\ readPid = [p \in Procs |-> None]
    /\ evLog = [p \in Procs |-> <<>>]
    /\ result = [p \in Procs |-> "none"]
    /\ grace \in 0..MaxGrace

\* The process is started; main calls check_single_instance.
IStart(p) ==
    /\ ipc[p] = "idle"
    /\ ipc' = [ipc EXCEPT ![p] = "open"]
    /\ UNCHANGED <<engineVars, unitVars,
                   fd, path, lockHolder, content, sockOwner,
                   pending, isd, polls, readPid, evLog, result, grace>>

\* instance.rs:167-179: open the PID file for writing, creating it if the
\* path names nothing, without truncating it.
IOpen(p) ==
    /\ ipc[p] = "open"
    /\ \E ok \in BOOLEAN :
          IF ok
             THEN /\ path' = IF path = NoInode THEN FreshInode ELSE path
                  /\ fd' = [fd EXCEPT ![p] = path']
                  /\ content' = IF path = NoInode
                                   THEN [content EXCEPT ![FreshInode] = ""]
                                   ELSE content
                  /\ ipc' = [ipc EXCEPT ![p] = "lock"]
                  /\ UNCHANGED <<result, lockHolder>>
             ELSE /\ Fail(p)
                  /\ UNCHANGED <<path, fd, content>>
    /\ UNCHANGED <<engineVars, unitVars,
                   sockOwner, pending, isd, polls, readPid, evLog,
                   grace>>

\* try_lock_exclusive succeeds iff no other open file holds the lock.
LockFree(p) == lockHolder[fd[p]] \in {None, p}

\* Mutant: the PID is written whether or not the lock was acquired.
AfterFirstLockWritesAnyway(ok) == "truncate"

\* instance.rs:182: the first try_lock_exclusive.
AfterFirstLock(ok) == IF ok THEN "truncate" ELSE "connect"

ITryLock(p) ==
    /\ ipc[p] = "lock"
    /\ ipc' = [ipc EXCEPT ![p] = AfterFirstLock(LockFree(p))]
    /\ lockHolder' = IF LockFree(p) THEN [lockHolder EXCEPT ![fd[p]] = p]
                                    ELSE lockHolder
    /\ UNCHANGED <<engineVars, unitVars,
                   fd, path, content, sockOwner, pending, isd,
                   polls, readPid, evLog, result, grace>>

\* instance.rs:187, 207-209: connect to the control socket; a socket nobody
\* listens on is taken for stale.
IConnect(p) ==
    /\ ipc[p] = "connect"
    /\ ipc' = [ipc EXCEPT ![p] = IF Listening(sockOwner) THEN "read_pid"
                                                          ELSE "unlink_stale"]
    /\ UNCHANGED <<engineVars, unitVars,
                   fd, path, lockHolder, content, sockOwner,
                   pending, isd, polls, readPid, evLog, result, grace>>

\* instance.rs:209: remove_file(socket_path) in the stale branch.
IUnlinkStale(p) ==
    /\ ipc[p] = "unlink_stale"
    /\ sockOwner' = None
    /\ ipc' = [ipc EXCEPT ![p] = "retry"]
    /\ UNCHANGED <<engineVars, unitVars,
                   fd, path, lockHolder, content, pending, isd,
                   polls, readPid, evLog, result, grace>>

\* instance.rs:60-89: read the PID through the path; a missing or empty file
\* is an error; a PID equal to our own requests our own shutdown.
IReadPid(p) ==
    /\ ipc[p] = "read_pid"
    /\ IF path = NoInode \/ content[path] = ""
          THEN /\ ipc' = [ipc EXCEPT ![p] = "retry"]
               /\ UNCHANGED <<readPid, isd>>
          ELSE /\ readPid' = [readPid EXCEPT ![p] = content[path]]
               /\ IF content[path] = p
                     THEN /\ isd' = [isd EXCEPT ![p] = TRUE]
                          /\ ipc' = [ipc EXCEPT ![p] = "retry"]
                     ELSE /\ ipc' = [ipc EXCEPT ![p] = "sigterm"]
                          /\ UNCHANGED isd
    /\ UNCHANGED <<engineVars, unitVars,
                   fd, path, lockHolder, content, sockOwner,
                   pending, polls, evLog, result, grace>>

\* instance.rs:103: the number of polls, two per second of grace.
PollBudget(grace_seconds) == 2 * grace_seconds

\* instance.rs:94-98: kill(pid, SIGTERM); a failure ends the function.
ISigTerm(p) ==
    /\ ipc[p] = "sigterm"
    /\ Log(p, "TERM")
    /\ IF Alive(readPid[p])
          THEN /\ pending' = [pending EXCEPT ![readPid[p]] = @ \cup {"TERM"}]
               /\ ipc' = [ipc EXCEPT ![p] = IF PollBudget(grace) = 0
                                               THEN "sigkill" ELSE "poll"]
          ELSE /\ ipc' = [ipc EXCEPT ![p] = "retry"]
               /\ UNCHANGED pending
    /\ UNCHANGED <<engineVars, unitVars,
                   fd, path, lockHolder, content, sockOwner, isd,
                   polls, readPid, result, grace>>

\* Mutant: SIGKILL is sent whatever the poll answered.
AfterPollKillsAnyway(answer, taken, budget) ==
    IF answer = "alive" /\ taken < budget THEN "poll" ELSE "sigkill"

\* instance.rs:107-122, 130-132: what a poll leads to. A process found gone,
\* or an error of kill(pid, 0), ends the function; SIGKILL follows only the
\* last poll of the budget.
AfterPoll(answer, taken, budget) ==
    IF answer = "alive"
       THEN (IF taken >= budget THEN "sigkill" ELSE "poll")
       ELSE "retry"

\* instance.rs:103-128: sleep 500 ms, then kill(pid, 0).
IPoll(p) ==
    /\ ipc[p] = "poll"
    /\ polls[p] < PollBudget(grace)
    /\ \E answer \in {"alive", "gone", "error"} :
          /\ (answer = "alive") => Alive(readPid[p])
          /\ (answer = "gone") => ~Alive(readPid[p])
          /\ Log(p, answer)
          /\ polls' = [polls EXCEPT ![p] = @ + 1]
          /\ ipc' = [ipc EXCEPT ![p] = AfterPoll(answer, polls'[p], PollBudget(grace))]
    /\ UNCHANGED <<engineVars, unitVars,
                   fd, path, lockHolder, content, sockOwner,
                   pending, isd, readPid, result, grace>>

\* instance.rs:130-141: kill(pid, SIGKILL), then a 500 ms sleep.
ISigKill(p) ==
    /\ ipc[p] = "sigkill"
    /\ Log(p, "KILL")
    /\ pending' = IF Alive(readPid[p])
                     THEN [pending EXCEPT ![readPid[p]] = @ \cup {"KILL"}]
                     ELSE pending
    /\ ipc' = [ipc EXCEPT ![p] = "retry"]
    /\ UNCHANGED <<engineVars, unitVars,
                   fd, path, lockHolder, content, sockOwner, isd,
                   polls, readPid, result, grace>>

\* Mutant: the result of the second try_lock_exclusive is not looked at.
AfterRetryIgnoresFailure(ok) == "truncate"

\* instance.rs:196-206, 210-220: the result of the second try_lock_exclusive.
AfterRetry(ok) == IF ok THEN "truncate" ELSE "failed"

IRetryLock(p) ==
    /\ ipc[p] = "retry"
    /\ LET next == AfterRetry(LockFree(p))
       IN /\ Log(p, IF LockFree(p) THEN "retry_ok" ELSE "retry_fail")
          /\ IF next = "failed"
                THEN Fail(p)
                ELSE /\ ipc' = [ipc EXCEPT ![p] = next]
                     /\ lockHolder' = IF LockFree(p)
                                         THEN [lockHolder EXCEPT ![fd[p]] = p]
                                         ELSE lockHolder
                     /\ UNCHANGED result
    /\ UNCHANGED <<engineVars, unitVars,
                   fd, path, content, sockOwner, pending, isd,
                   polls, readPid, grace>>

\* instance.rs:226-239: with the lock held, truncate the file and write our
\* PID. An error of either returns Err.
ITruncate(p) ==
    /\ ipc[p] = "truncate"
    /\ \E ok \in BOOLEAN :
          IF ok THEN /\ content' = [content EXCEPT ![fd[p]] = ""]
                     /\ ipc' = [ipc EXCEPT ![p] = "write_pid"]
                     /\ UNCHANGED <<result, lockHolder>>
                ELSE /\ Fail(p)
                     /\ UNCHANGED content
    /\ UNCHANGED <<engineVars, unitVars,
                   fd, path, sockOwner, pending, isd, polls,
                   readPid, evLog, grace>>

IWritePid(p) ==
    /\ ipc[p] = "write_pid"
    /\ \E ok \in BOOLEAN :
          IF ok THEN /\ content' = [content EXCEPT ![fd[p]] = p]
                     /\ ipc' = [ipc EXCEPT ![p] = "rm_sock"]
                     /\ UNCHANGED <<result, lockHolder>>
                ELSE /\ Fail(p)
                     /\ UNCHANGED content
    /\ UNCHANGED <<engineVars, unitVars,
                   fd, path, sockOwner, pending, isd, polls,
                   readPid, evLog, grace>>

\* instance.rs:248: remove_file(socket_path) before binding.
IRmSock(p) ==
    /\ ipc[p] = "rm_sock"
    /\ sockOwner' = None
    /\ ipc' = [ipc EXCEPT ![p] = "bind"]
    /\ UNCHANGED <<engineVars, unitVars,
                   fd, path, lockHolder, content, pending, isd,
                   polls, readPid, evLog, result, grace>>

\* instance.rs:251: UnixListener::bind fails when a file exists at the path.
IBind(p) ==
    /\ ipc[p] = "bind"
    /\ IF sockOwner = None
          THEN /\ sockOwner' = p
               /\ ipc' = [ipc EXCEPT ![p] = "install"]
               /\ UNCHANGED <<result, lockHolder>>
          ELSE /\ Fail(p)
               /\ UNCHANGED sockOwner
    /\ UNCHANGED <<engineVars, unitVars,
                   fd, path, content, pending, isd, polls, readPid,
                   evLog, grace>>

\* instance.rs:257-300: install the signal handler, spawn the threads,
\* return Ok.
IInstall(p) ==
    /\ ipc[p] = "install"
    /\ ipc' = [ipc EXCEPT ![p] = "running"]
    /\ result' = [result EXCEPT ![p] = "ok"]
    /\ UNCHANGED <<engineVars, unitVars,
                   fd, path, lockHolder, content, sockOwner,
                   pending, isd, polls, readPid, evLog, grace>>

\* Delivery of a pending signal. SIGKILL ends the process. SIGTERM sets the
\* shutdown flag when the handler is installed (instance.rs:259-268) and ends
\* the process otherwise.
IDeliver(p) ==
    /\ Alive(p)
    /\ \E sig \in pending[p] :
          /\ pending' = [pending EXCEPT ![p] = @ \ {sig}]
          /\ IF sig = "TERM" /\ HandlerInstalled(p)
                THEN /\ isd' = [isd EXCEPT ![p] = TRUE]
                     /\ UNCHANGED <<ipc, lockHolder>>
                ELSE /\ ipc' = [ipc EXCEPT ![p] = "killed"]
                     /\ lockHolder' = Released(p)
                     /\ UNCHANGED isd
    /\ UNCHANGED <<engineVars, unitVars,
                   fd, path, content, sockOwner, polls, readPid,
                   evLog, result, grace>>

\* The run ends, its work done or the shutdown flag seen, and the exit
\* cleanup starts. A process may also keep running for any length of time.
IExit(p) ==
    /\ ipc[p] = "running"
    /\ ipc' = [ipc EXCEPT ![p] = "cleanup_unlock"]
    /\ UNCHANGED <<engineVars, unitVars,
                   fd, path, lockHolder, content, sockOwner,
                   pending, isd, polls, readPid, evLog, result, grace>>

\* cleanup_lock_file: drop the lock file handle, remove the socket file,
\* remove the PID file; then the process ends.
ICleanupUnlock(p) ==
    /\ ipc[p] = "cleanup_unlock"
    /\ lockHolder' = Released(p)
    /\ ipc' = [ipc EXCEPT ![p] = "cleanup_sock"]
    /\ UNCHANGED <<engineVars, unitVars,
                   fd, path, content, sockOwner, pending, isd,
                   polls, readPid, evLog, result, grace>>

ICleanupSock(p) ==
    /\ ipc[p] = "cleanup_sock"
    /\ sockOwner' = None
    /\ ipc' = [ipc EXCEPT ![p] = "cleanup_pid"]
    /\ UNCHANGED <<engineVars, unitVars,
                   fd, path, lockHolder, content, pending, isd,
                   polls, readPid, evLog, result, grace>>

ICleanupPid(p) ==
    /\ ipc[p] = "cleanup_pid"
    /\ path' = NoInode
    /\ ipc' = [ipc EXCEPT ![p] = "exited"]
    /\ UNCHANGED <<engineVars, unitVars,
                   fd, lockHolder, content, sockOwner, pending,
                   isd, polls, readPid, evLog, result, grace>>

NextInstance ==
    \E p \in Procs :
       \/ IStart(p)
       \/ IOpen(p)
       \/ ITryLock(p)
       \/ IConnect(p)
       \/ IUnlinkStale(p)
       \/ IReadPid(p)
       \/ ISigTerm(p)
       \/ IPoll(p)
       \/ ISigKill(p)
       \/ IRetryLock(p)
       \/ ITruncate(p)
       \/ IWritePid(p)
       \/ IRmSock(p)
       \/ IBind(p)
       \/ IInstall(p)
       \/ IDeliver(p)
       \/ IExit(p)
       \/ ICleanupUnlock(p)
       \/ ICleanupSock(p)
       \/ ICleanupPid(p)

SpecInstance == InitInstance /\ [][NextInstance]_vars

\* ---------------------------------------------------------------- C3
\* A process holds the instance lock from the Ok of check_single_instance
\* until its exit cleanup drops the lock file handle.
Holder(p) == result[p] = "ok" /\ ipc[p] \in {"running", "cleanup_unlock"}

\* C3: of two processes started concurrently at most one holds the instance
\* lock at any instant, and the holder has the flock on the file it opened;
\* a process that found the lock taken has either returned an error or
\* returned Ok when the other no longer held the lock.
C3_OneLockHolder ==
    /\ \A p, q \in Procs : (p # q) => ~(Holder(p) /\ Holder(q))
    /\ \A p \in Procs : Holder(p) => lockHolder[fd[p]] = p
    /\ \A p \in Procs : (ipc[p] = "failed") <=> (result[p] = "err")
    /\ \A p \in Procs :
          (evLog[p] # <<>> /\ ipc[p] \in {"failed", "running"}) =>
             \/ result[p] = "err"
             \/ result[p] = "ok" /\ \A q \in Procs \ {p} : ~Holder(q)

\* One process superseded the other: it found the lock taken, signalled the
\* holder, which exited through its cleanup, and then acquired the lock.
C3_Witness ==
    \E p, q \in Procs :
       /\ Holder(p)
       /\ evLog[p] # <<>>
       /\ evLog[p][1] = "TERM"
       /\ result[q] = "ok"
       /\ ipc[q] = "exited"

\* ---------------------------------------------------------------- C9
RetryEvents(p) ==
    {i \in DOMAIN evLog[p] : evLog[p][i] \in {"retry_ok", "retry_fail"}}

\* C9: SIGTERM is the first signal; SIGKILL is sent only as the event after
\* 2 * grace_seconds polls that all found the old process alive, and never
\* once a poll found it gone; the lock is retried once, as the last event,
\* and a failed retry is an Err of check_single_instance.
C9_SupersedeSequence ==
    \A p \in Procs :
       LET L == evLog[p]
       IN /\ \A i \in DOMAIN L :
                L[i] \in {"alive", "gone", "error", "KILL"} => L[1] = "TERM"
          /\ \A i \in DOMAIN L :
                L[i] = "KILL" =>
                   /\ i = 2 * grace + 2
                   /\ \A j \in 2..(i - 1) : L[j] = "alive"
          /\ (\E j \in DOMAIN L : L[j] = "gone") =>
                (\A i \in DOMAIN L : L[i] # "KILL")
          /\ Cardinality(RetryEvents(p)) <= 1
          /\ \A i \in RetryEvents(p) : i = Len(L)
          /\ (L # <<>> /\ L[1] = "TERM"
                /\ ipc[p] \notin {"sigterm", "poll", "sigkill", "retry", "killed"})
                => Cardinality(RetryEvents(p)) = 1
          /\ (L # <<>> /\ L[Len(L)] = "retry_fail") =>
                (result[p] = "err" /\ ipc[p] = "failed")

\* The old instance ignored SIGTERM for the whole grace period: every poll
\* found it alive, SIGKILL was sent and the retried lock was acquired.
C9_Witness ==
    \E p \in Procs :
       /\ grace = MaxGrace
       /\ Len(evLog[p]) = 2 * grace + 3
       /\ evLog[p][1] = "TERM"
       /\ evLog[p][2 * grace + 2] = "KILL"
       /\ evLog[p][2 * grace + 3] = "retry_ok"
       /\ result[p] = "ok"

\* --------------------------------------------------------------- C17
\* Another process holds the flock on file i.
LockedByOther(p, i) == i # NoInode /\ lockHolder[i] \notin {None, p}

\* C17 as stated: no step of a process truncates or writes the PID file, or
\* reads the stored PID from it, while another process holds the lock on it.
C17_AsStated ==
    [][ \A p \in Procs :
           /\ (fd[p] # NoInode /\ ipc'[p] # ipc[p]
                 /\ content'[fd[p]] # content[fd[p]]) => ~LockedByOther(p, fd[p])
           /\ readPid'[p] # readPid[p] => ~LockedByOther(p, path)
      ]_vars

\* C17, amended: a process truncates and writes the PID file only while it
\* holds the lock itself, and the PID a file stores is the PID of a process
\* that opened that file; the stored PID is read only by a process that does
\* not hold the lock, on its way from the refused lock to SIGTERM, so the
\* other instance may well hold the lock while it is read.
C17_PidFileAccess ==
    \A p \in Procs :
       /\ ipc[p] \in {"truncate", "write_pid"} => lockHolder[fd[p]] = p
       /\ ipc[p] \in {"read_pid", "sigterm", "poll", "sigkill"} =>
             lockHolder[fd[p]] # p
       /\ readPid[p] # None =>
             (readPid[p] # p /\ evLog[p] # <<>> /\ evLog[p][1] = "TERM")
             \/ ipc[p] = "sigterm"
       /\ \A i \in Inodes : content[i] = p => fd[p] = i

\* A process read the PID of the lock holder while that one held the lock,
\* and later, holding the lock itself, wrote its own PID over it.
C17_Witness ==
    \E p, q \in Procs :
       /\ p # q
       /\ readPid[p] = q
       /\ lockHolder[fd[p]] = p
       /\ content[fd[p]] = p

\* --------------------------------------------------------------- C18
\* C18: the socket file bound by the process that holds the lock stays in
\* place as long as that process holds the lock.
C18_HolderSocketKept ==
    [][ \A p \in Procs :
           (sockOwner = p /\ fd[p] # NoInode /\ lockHolder[fd[p]] = p) =>
              sockOwner' = p
      ]_vars

\* --------------------------------------------------------------- C33
\* Process p superseded q: it found the lock taken, signalled, acquired the
\* lock on its retry and returned Ok, and q left through its exit cleanup.
SupersededGracefully(p, q) ==
    /\ p # q
    /\ ipc[p] = "running"
    /\ result[p] = "ok"
    /\ evLog[p] # <<>>
    /\ evLog[p][Len(evLog[p])] = "retry_ok"
    /\ result[q] = "ok"
    /\ ipc[q] = "exited"

\* C33 (as stated): after the supersede the PID path names the file the new
\* instance holds its lock on, so that a process started later opens that
\* file and is refused the lock. The old instance's cleanup removes the PID
\* path after the new instance opened it (instance.rs:343), whether before or
\* after the new instance's retried lock: the new instance holds its lock on
\* a file no path names, and a later process creates and locks a new file.
C33_AsStated ==
    \A p, q \in Procs :
       SupersededGracefully(p, q) => (path = fd[p] /\ lockHolder[path] = p)

\* What the code does: the new instance holds the lock on the file it opened,
\* and the PID path names nothing.
C33_AsEnforced ==
    \A p, q \in Procs :
       SupersededGracefully(p, q) => (lockHolder[fd[p]] = p /\ path = NoInode)

C33_PathUnlinked ==
    \E p, q \in Procs : SupersededGracefully(p, q) /\ path = NoInode

----
\* One listed file through check_file_should_transfer and the choice of the
\* staging buffer, with the file and the replies it gets drawn beforehand.

DEFAULT_RAM_THRESHOLD == 10 * 1024 * 1024

\* Option<T> is a sequence of at most one element; Option::unwrap_or.
unwrap_or(opt, default) == IF opt = <<>> THEN default ELSE opt[1]

\* Mutant: a threshold of 0 is compared like any other.
use_ram_compares_zero(size, actual_threshold) == size <= actual_threshold

\* ftp_ops.rs:484-488: the storage method.
use_ram(size, actual_threshold) ==
    IF actual_threshold = 0 THEN TRUE ELSE size <= actual_threshold

\* Sizes a SIZE reply can carry and thresholds -r can set, around each other
\* and around the default threshold.
FileSizes == (0..(MaxSize + 1)) \cup {DEFAULT_RAM_THRESHOLD + d : d \in {-1, 0, 1}}
Thresholds == {<<>>} \cup {<<r>> : r \in 0..MaxSize}

InitSelect ==
    /\ EngineOff
    /\ InstanceIdle
    /\ RuntimeIdle
    /\ ToolsIdle
    /\ probe \in [matches : BOOLEAN, mdtm_ok : BOOLEAN, secs : MTimes,
                  min_age_seconds : 0..MaxAge, size_ok : BOOLEAN,
                  size : FileSizes, ram_threshold : Thresholds]
    /\ sel_pc = "head"
    /\ sel_ops = <<>>
    /\ storage = ""

\* ftp_ops.rs:89-98: the regex test; the flag is not set, a name is left.
SelHead ==
    /\ sel_pc = "head"
    /\ sel_pc' = LoopHeadNext(TRUE, FALSE, probe.matches)
    /\ UNCHANGED <<probe, sel_ops, storage, engineVars, instVars, runtimeVars,
                   toolVars>>

\* ftp_ops.rs:101-158: mdtm and the tests on its reply.
SelMdtm ==
    /\ sel_pc = "mdtm"
    /\ sel_ops' = Append(sel_ops, <<"src", "mdtm", probe.mdtm_ok>>)
    /\ sel_pc' = IF AgeEligible(probe.mdtm_ok, probe.secs, probe.min_age_seconds)
                    THEN "size" ELSE "loop"
    /\ UNCHANGED <<probe, storage, engineVars, instVars, runtimeVars,
                   toolVars>>

\* ftp_ops.rs:161-174: size; Some(size) selects the file.
SelSize ==
    /\ sel_pc = "size"
    /\ sel_ops' = Append(sel_ops, <<"src", "size", probe.size_ok>>)
    /\ sel_pc' = IF probe.size_ok THEN "retr" ELSE "loop"
    /\ UNCHANGED <<probe, storage, engineVars, instVars, runtimeVars,
                   toolVars>>

\* ftp_ops.rs:479-536: the storage method is chosen, then retr fills the
\* buffer.
SelRetr ==
    /\ sel_pc = "retr"
    /\ storage' = IF use_ram(probe.size,
                             unwrap_or(probe.ram_threshold, DEFAULT_RAM_THRESHOLD))
                     THEN "RAM" ELSE "disk"
    /\ \E ok \in BOOLEAN :
          /\ sel_ops' = Append(sel_ops, <<"src", "retr", ok>>)
          /\ sel_pc' = IF ok THEN "put" ELSE "loop"
    /\ UNCHANGED <<probe, engineVars, instVars, runtimeVars,
                   toolVars>>

\* ftp_ops.rs:550: the first operation on the destination for the file.
SelPut ==
    /\ sel_pc = "put"
    /\ \E ok \in BOOLEAN :
          /\ sel_ops' = Append(sel_ops, <<"dst", "put_file", ok>>)
          /\ sel_pc' = "uploaded"
    /\ UNCHANGED <<probe, storage, engineVars, instVars, runtimeVars,
                   toolVars>>

NextSelect == SelHead \/ SelMdtm \/ SelSize \/ SelRetr \/ SelPut

SpecSelect == InitSelect /\ [][NextSelect]_vars

\* --------------------------------------------------------------- C11
\* C11: once the storage method is chosen, it is RAM iff the threshold in
\* force (10 MiB when none is configured) is 0 or the size SIZE replied does
\* not exceed it, and disk otherwise.
C11_StagingChoice ==
    storage # "" =>
       LET R == IF probe.ram_threshold = <<>> THEN 10485760
                                              ELSE probe.ram_threshold[1]
       IN /\ storage \in {"RAM", "disk"}
          /\ (storage = "RAM") <=> (R = 0 \/ probe.size <= R)

\* With no threshold configured, a file one byte over 10 MiB went to disk.
C11_Witness ==
    /\ storage = "disk"
    /\ probe.ram_threshold = <<>>
    /\ probe.size = 10485761

\* --------------------------------------------------------------- C12
RetrIssued == \E i \in DOMAIN sel_ops : sel_ops[i][2] = "retr"

\* C12: check_file_should_transfer selects the file iff the name matches,
\* mdtm succeeds with a timestamp from the epoch on and not after now, the age
\* is at least min_age_seconds and size succeeds; a file not selected gets no
\* retr and no operation on the destination, and the loop goes on.
C12_SelectionRule ==
    LET should == /\ probe.matches
                  /\ probe.mdtm_ok
                  /\ probe.secs >= 0
                  /\ probe.secs <= Now
                  /\ Now - probe.secs >= probe.min_age_seconds
                  /\ probe.size_ok
    IN /\ sel_pc \in {"retr", "put", "uploaded"} => should
       /\ RetrIssued => should
       /\ (sel_pc = "loop" /\ ~RetrIssued) => ~should
       /\ ~should =>
             /\ sel_pc \in {"head", "mdtm", "size", "loop"}
             /\ \A i \in DOMAIN sel_ops :
                   sel_ops[i][1] = "src" /\ sel_ops[i][2] \in {"mdtm", "size"}

\* A file exactly min_age_seconds old, with the age filter on, was selected and
\* uploaded.
C12_Witness ==
    /\ sel_pc = "uploaded"
    /\ probe.min_age_seconds = MaxAge
    /\ Now - probe.secs = MaxAge

----
\* The shutdown flags of one running process: the signal thread and the
\* socket listener that check_single_instance spawned, and the readers of the
\* flag (the engine's loop head, the driver).

engineRest == <<pc, cfg, servers, locals, sess, tally, file_list, idx, ret,
                ops, sawShutdown>>

SHUTDOWN == <<"S", "H", "U", "T", "D", "O", "W", "N">>

\* What a client may write to the socket before it closes: nothing (the
\* probing connect of a starting instance), part of the command, the command,
\* the command followed by more, other bytes.
Streams ==
    {SubSeq(SHUTDOWN, 1, k) : k \in {0, 4, 7, 8}}
       \cup {SHUTDOWN \o <<"!">>, SubSeq(SHUTDOWN, 1, 7) \o <<"X">>}

\* stream.read(&mut buffer) with buffer = [0; 8]: one read returns what has
\* arrived, at least one byte unless the stream is at its end, at most 8.
ReadSizes(stream) ==
    IF stream = <<>> THEN {0}
    ELSE {n \in 1..8 : n <= Len(stream)}

Buffer(stream, size) == [i \in 1..8 |-> IF i <= size THEN stream[i] ELSE "NUL"]

\* Mutant: the bytes read are compared, their number is not.
ListenerAcceptsAnyRead(size, buffer) ==
    SubSeq(buffer, 1, size) = SubSeq(SHUTDOWN, 1, size)

\* instance.rs:279: size == 8 && &buffer[..] == b"SHUTDOWN".
ListenerAccepts(size, buffer) == size = 8 /\ buffer = SHUTDOWN

\* Mutant: the store flips the flag.
request_shutdown_flips == ~shutdown

\* shutdown.rs:30-32: the value request_shutdown stores into SHUTDOWN_REQUESTED.
request_shutdown == TRUE

\* instance.rs:261-265: the signal kind stored for a signal.
SignalKind(sig) == CASE sig = "SIGINT" -> 1 [] sig = "SIGTERM" -> 2 [] OTHER -> 1

InitRuntime ==
    /\ EngineOff
    /\ InstanceIdle
    /\ SelectIdle
    /\ ToolsIdle
    /\ signal_type = 0
    /\ sig_thread = "waiting"
    /\ listener = "accepting"
    /\ conn = NoConn
    /\ conns = 0
    /\ observed = FALSE
    /\ signal = ""
    /\ got = NoCall

\* Mutant: the flag is stored before the signal kind.
request_shutdown_with_signal_flag_first == <<"SHUTDOWN_REQUESTED", "SIGNAL_TYPE">>

\* shutdown.rs:41-44: the two stores of request_shutdown_with_signal, in
\* program order (both SeqCst).
request_shutdown_with_signal == <<"SIGNAL_TYPE", "SHUTDOWN_REQUESTED">>

\* One of the two stores, for a signal of the given kind.
AtomicStore(target, kind) ==
    IF target = "SIGNAL_TYPE"
       THEN signal_type' = kind /\ UNCHANGED shutdown
       ELSE shutdown' = TRUE /\ UNCHANGED signal_type

\* instance.rs:259-266 and shutdown.rs:41-42: the signal thread takes the
\* first signal and makes the first store.
SignalArrives ==
    /\ sig_thread = "waiting"
    /\ \E sig \in {"SIGINT", "SIGTERM"} :
          /\ signal' = sig
          /\ AtomicStore(request_shutdown_with_signal[1], SignalKind(sig))
    /\ sig_thread' = "storing"
    /\ UNCHANGED <<listener, conn, conns, observed, got, engineRest,
                   instVars, selectVars, toolVars>>

\* shutdown.rs:43: then it makes the second store, and the thread ends.
SignalStored ==
    /\ sig_thread = "storing"
    /\ AtomicStore(request_shutdown_with_signal[2], SignalKind(signal))
    /\ sig_thread' = "done"
    /\ UNCHANGED <<signal, listener, conn, conns, observed, got, engineRest,
                   instVars, selectVars, toolVars>>

\* instance.rs:272-291: one turn of the loop over listener.incoming().
Serve ==
    /\ listener = "accepting"
    /\ conns < MaxConns
    /\ conns' = conns + 1
    /\ \E stream \in Streams, accept_ok \in BOOLEAN, read_ok \in BOOLEAN :
          \E size \in ReadSizes(stream) :
             LET command == /\ accept_ok
                            /\ read_ok
                            /\ ListenerAccepts(size, Buffer(stream, size))
             IN /\ conn' = [stream |-> stream,
                            read |-> IF ~accept_ok THEN "accept_err"
                                     ELSE IF ~read_ok THEN "read_err" ELSE "ok",
                            size |-> size,
                            command |-> command]
                /\ shutdown' = IF command THEN request_shutdown ELSE shutdown
                /\ listener' = IF command THEN "exited" ELSE listener
    /\ UNCHANGED <<signal_type, sig_thread, observed, signal, got, engineRest,
                   instVars, selectVars, toolVars>>

\* shutdown.rs:22-24: is_shutdown_requested, called by the engine and the
\* driver.
Observe ==
    /\ observed # shutdown
    /\ observed' = shutdown
    /\ UNCHANGED <<shutdown, signal_type, sig_thread, listener, conn, conns,
                   signal, got, engineRest, instVars, selectVars, toolVars>>

\* shutdown.rs:52-59: the value of get_signal_type for a value of SIGNAL_TYPE.
get_signal_type(value) == IF value = 0 THEN <<>> ELSE <<value>>

\* A thread calls get_signal_type; `after` tells whether an earlier
\* is_shutdown_requested had returned true.
GetSignalType ==
    /\ got' = [after |-> observed, value |-> get_signal_type(signal_type)]
    /\ got' # got
    /\ UNCHANGED <<shutdown, signal_type, sig_thread, listener, conn, conns,
                   observed, signal, engineRest, instVars, selectVars, toolVars>>

NextRuntime == SignalArrives \/ SignalStored \/ Serve \/ Observe \/ GetSignalType

SpecRuntime == InitRuntime /\ [][NextRuntime]_vars

\* --------------------------------------------------------------- C19
\* What a served connection led to (the three clauses of C19 but the iff).
ServedAsDecided ==
    /\ ~conn'.command => (shutdown' = shutdown /\ listener' = "accepting")
    /\ conn'.command => (shutdown' /\ listener' = "exited")

\* C19 as stated: the listener sets the flag iff the connection delivers
\* exactly the 8 bytes "SHUTDOWN".
C19_AsStated ==
    [][ /\ conns' # conns =>
              /\ conn'.command <=> (conn'.stream = SHUTDOWN)
              /\ ServedAsDecided
        /\ listener = "exited" => conns' = conns
      ]_vars

\* C19, amended: the listener sets the flag iff the one read it makes on the
\* connection succeeds and returns 8 bytes that are "SHUTDOWN": the command
\* arriving in pieces is ignored like fewer or other bytes, and a longer
\* message that begins with "SHUTDOWN" is taken for the command. An ignored
\* connection leaves the flag unchanged and the listener accepting; after a
\* command the listener serves no further connection.
C19_FirstReadDecides ==
    [][ /\ conns' # conns =>
              /\ conn'.command <=> /\ conn'.read = "ok"
                                   /\ conn'.size = 8
                                   /\ SubSeq(conn'.stream, 1, 8) = SHUTDOWN
              /\ ServedAsDecided
        /\ listener = "exited" => conns' = conns
      ]_vars

\* After a connection that was ignored, a connection delivered "SHUTDOWN" in
\* one read: the flag is set and the listener has exited.
C19_Witness ==
    /\ conns = MaxConns
    /\ conn.stream = SHUTDOWN
    /\ conn.command
    /\ shutdown
    /\ listener = "exited"
    /\ sig_thread = "waiting"

\* --------------------------------------------------------------- C20
\* C20: the flag, once set, stays set; is_shutdown_requested, once it has
\* returned true, returns true; the signal kind, once stored, is not reset.
C20_FlagMonotone ==
    [][ /\ shutdown => shutdown'
        /\ observed => observed'
        /\ signal_type # 0 => signal_type' # 0
      ]_vars

\* The flag was set by a signal and again by a command on the socket, and a
\* reader has seen it set.
C20_Witness ==
    /\ observed
    /\ shutdown
    /\ signal_type = 2
    /\ sig_thread = "done"
    /\ conn # NoConn
    /\ conn.command

\* --------------------------------------------------------------- C34
\* C34: while no command has arrived on the socket, so that a signal is the
\* only request there can have been, a get_signal_type call made after
\* is_shutdown_requested returned true returns Some(k), k the kind of the
\* signal that was taken, and not None.
C34_SignalKindVisible ==
    (got # NoCall /\ got.after /\ listener = "accepting") =>
       (signal # "" /\ got.value = <<SignalKind(signal)>>)

\* SIGTERM was the only request; the flag was seen set and then the kind was
\* asked for.
C34_Witness ==
    /\ got # NoCall
    /\ got.after
    /\ got.value = <<2>>
    /\ signal = "SIGTERM"
    /\ listener = "accepting"

----
\* The configuration loader: parse_config and Config::validate (config.rs).
\* A string the checks look into (a host, a line) is the sequence of its
\* characters; an Option is the empty or the one-element sequence.

MaxLines == 3      \* lines of the configuration file

Whitespace == {" ", "\t"}

configRest == <<engineVars, instVars, selectVars, runtimeVars, cliVars,
                migrateVars, connectVars, sftpVars, driverVars, logVars,
                poolVars, loginVars>>

\* str::contains(char)
contains(str, c) == \E i \in DOMAIN str : str[i] = c

\* Option::map_or(false, |v| !v.is_empty())
has_value(opt) == opt # <<>> /\ opt[1] # ""

\* Paths for which Path::exists answers true.
ExistingPaths == {"/k"}

\* Patterns Regex::new refuses.
BadPatterns == {"(invalid["}

\* config.rs:164-251: the credentials of one side ("from" or "to"); the
\* result is the message of the first check that fails, "" when none does.
validate_auth(side, proto, password, keyfile, keyfile_pass) ==
    LET has_password == has_value(password)
        has_keyfile == has_value(keyfile)
        has_keyfile_pass == has_value(keyfile_pass)
    IN IF proto = "sftp"
          THEN IF ~has_password /\ ~has_keyfile
                  THEN side \o "_auth: password or keyfile is required for SFTP"
               ELSE IF has_password /\ has_keyfile
                  THEN side \o "_auth: password and keyfile are mutually exclusive"
               ELSE IF has_keyfile_pass /\ ~has_keyfile
                  THEN side \o "_auth: keyfile_pass requires keyfile"
               ELSE IF has_keyfile /\ keyfile[1] \notin ExistingPaths
                  THEN side \o "_auth: keyfile does not exist"
               ELSE ""
          ELSE IF ~has_password
                  THEN "password_" \o side \o " is required for FTP/FTPS"
                  ELSE ""

\* Mutant: a host is checked for '/' and '\' only.
host_invalid_slashes_only(host) == contains(host, "/") \/ contains(host, "\\")

\* config.rs:126: the characters a host must not contain.
host_invalid(host) ==
    contains(host, "/") \/ contains(host, "\\") \/ contains(host, " ")

\* config.rs:107-297 Config::validate: "" for Ok(()), else the message.
validate(c) ==
    LET auth_from == validate_auth("from", c.proto_from, c.password_from,
                                   c.keyfile_from, c.keyfile_pass_from)
        auth_to == validate_auth("to", c.proto_to, c.password_to,
                                 c.keyfile_to, c.keyfile_pass_to)
    IN CASE c.host_from = <<>> -> "host_from cannot be empty"
         [] c.host_from # <<>> /\ c.host_to = <<>> -> "host_to cannot be empty"
         [] OTHER ->
            IF host_invalid(c.host_from) THEN "host_from contains invalid characters"
            ELSE IF host_invalid(c.host_to) THEN "host_to contains invalid characters"
            ELSE IF c.port_from = 0 THEN "port_from cannot be 0"
            ELSE IF c.port_to = 0 THEN "port_to cannot be 0"
            ELSE IF c.login_from = "" THEN "login_from cannot be empty"
            ELSE IF c.login_to = "" THEN "login_to cannot be empty"
            ELSE IF auth_from # "" THEN auth_from
            ELSE IF auth_to # "" THEN auth_to
            ELSE IF c.path_from = "" THEN "path_from cannot be empty"
            ELSE IF c.path_to = "" THEN "path_to cannot be empty"
            ELSE IF c.filename_regexp \in BadPatterns THEN "Invalid filename_regexp pattern"
            ELSE ""

\* A rule every check accepts.
GoodRule ==
    [host_from |-> <<"h">>, port_from |-> 21, login_from |-> "u",
     password_from |-> <<"pw">>, keyfile_from |-> <<>>, keyfile_pass_from |-> <<>>,
     path_from |-> "/in", proto_from |-> "ftp",
     host_to |-> <<"h">>, port_to |-> 21, login_to |-> "u",
     password_to |-> <<"pw">>, keyfile_to |-> <<>>, keyfile_pass_to |-> <<>>,
     path_to |-> "/out", proto_to |-> "ftp",
     age |-> 0, filename_regexp |-> ".*"]

Hosts == {<<>>, <<"h">>, <<"h", " ", "h">>, <<"h", "\t", "h">>,
          <<"h", "/", "h">>, <<"h", "\\", "h">>}
Protocols == {"ftp", "ftps", "sftp"}
Passwords == {<<>>, <<"">>, <<"pw">>}
Keyfiles == {<<>>, <<"">>, <<"/k">>, <<"/missing">>}
Passphrases == {<<>>, <<"">>, <<"pp">>}

\* The rules tried alone in a file: every host and credential of one side
\* with the other side valid, and one rule for each of the other checks.
Rules ==
    {[GoodRule EXCEPT !.host_from = h, !.proto_from = pr, !.password_from = pw,
                      !.keyfile_from = kf, !.keyfile_pass_from = pp] :
        h \in Hosts, pr \in Protocols, pw \in Passwords, kf \in Keyfiles,
        pp \in Passphrases}
    \cup
    {[GoodRule EXCEPT !.host_to = h, !.proto_to = pr, !.password_to = pw,
                      !.keyfile_to = kf, !.keyfile_pass_to = pp] :
        h \in Hosts, pr \in Protocols, pw \in Passwords, kf \in Keyfiles,
        pp \in Passphrases}
    \cup
    {[GoodRule EXCEPT !.port_from = 0], [GoodRule EXCEPT !.port_to = 0],
     [GoodRule EXCEPT !.login_from = ""], [GoodRule EXCEPT !.login_to = ""],
     [GoodRule EXCEPT !.path_from = ""], [GoodRule EXCEPT !.path_to = ""],
     [GoodRule EXCEPT !.filename_regexp = "(invalid["]}

\* The rules tried in files of several lines.
FewRules ==
    {GoodRule, [GoodRule EXCEPT !.age = 1],
     [GoodRule EXCEPT !.filename_regexp = "(invalid["],
     [GoodRule EXCEPT !.host_to = <<>>]}

\* A line is its text and, when the text is a JSON object with every
\* required field, the record serde_json reads from it.
JsonText == <<"{", "}">>
Line(text, rule) == [text |-> text, rule |-> rule]

OneLineFiles ==
    {<<Line(t, r)>> : t \in {JsonText, <<" ", "{", "}", " ">>}, r \in Rules}
    \cup {<<Line(t, GoodRule)>> : t \in {<<>>, <<" ">>, <<"#", "c">>,
                                         <<" ", "\t", "#">>, <<"c", "#">>, <<"{">>}}

FewLines ==
    {Line(JsonText, r) : r \in FewRules}
    \cup {Line(t, GoodRule) : t \in {<<>>, <<" ", "#", "c">>, <<"{">>}}

Files ==
    OneLineFiles \cup UNION {[1..n -> FewLines] : n \in 2..MaxLines}

\* str::trim
trim(str) ==
    LET keep == {i \in DOMAIN str : str[i] \notin Whitespace}
    IN IF keep = {} THEN <<>>
       ELSE SubSeq(str, CHOOSE i \in keep : \A j \in keep : i <= j,
                        CHOOSE i \in keep : \A j \in keep : i >= j)

\* config.rs:315: the line is skipped.
Skipped(line) == line = <<>> \/ line[1] = "#"

\* Mutant: the error names the index of the line, counted from 0.
LineNumberFromZero(i) == i

\* config.rs:323,331,339: line_num + 1
LineNumber(i) == i + 1

InitConfig ==
    /\ EngineOff
    /\ InstanceIdle
    /\ SelectIdle
    /\ RuntimeIdle
    /\ LogIdle
    /\ PoolIdle
    /\ LoginIdle
    /\ CliIdle
    /\ MigrateIdle
    /\ ConnectIdle
    /\ SftpIdle
    /\ DriverIdle
    /\ file \in Files
    /\ line_num = 0
    /\ configs = <<>>
    /\ parsed = "reading"
    /\ parse_error = <<>>

\* Return Err from inside the loop (the `?` of config.rs:325,333,341).
ParseFails(what, detail) ==
    /\ parsed' = "Err"
    /\ parse_error' = <<what, LineNumber(line_num), detail>>
    /\ UNCHANGED <<line_num, configs>>

\* config.rs:311-345: one iteration of the loop over the lines.
ParseLine ==
    /\ parsed = "reading"
    /\ line_num < Len(file)
    /\ LET line == trim(file[line_num + 1].text)
           config == file[line_num + 1].rule
       IN IF Skipped(line)
             THEN /\ line_num' = line_num + 1
                  /\ UNCHANGED <<configs, parsed, parse_error>>
          ELSE IF line # JsonText
             THEN ParseFails("invalid JSON", "")
          ELSE IF config.filename_regexp \in BadPatterns
             THEN ParseFails("invalid filename regex pattern", "")
          ELSE IF validate(config) # ""
             THEN ParseFails("invalid config values", validate(config))
          ELSE /\ configs' = Append(configs, config)
               /\ line_num' = line_num + 1
               /\ UNCHANGED <<parsed, parse_error>>
    /\ UNCHANGED <<file, configRest>>

\* config.rs:347: Ok(configs)
ParseEnd ==
    /\ parsed = "reading"
    /\ line_num = Len(file)
    /\ parsed' = "Ok"
    /\ UNCHANGED <<file, line_num, configs, parse_error, configRest>>

NextConfig == ParseLine \/ ParseEnd

SpecConfig == InitConfig /\ [][NextConfig]_vars

\* --------------------------------------------------------------- C23
\* The single rule of a one-line file, once parse_config has returned.
OneRuleParsed ==
    /\ parsed \in {"Ok", "Err"}
    /\ Len(file) = 1
    /\ trim(file[1].text) = JsonText

TheRule == file[1].rule

\* The rule differs from GoodRule in its credentials at most.
OnlyCredentialsVary ==
    [TheRule EXCEPT !.proto_from = "ftp", !.password_from = <<"pw">>,
                    !.keyfile_from = <<>>, !.keyfile_pass_from = <<>>,
                    !.proto_to = "ftp", !.password_to = <<"pw">>,
                    !.keyfile_to = <<>>, !.keyfile_pass_to = <<>>] = GoodRule

\* The credentials of a side as the claim wants them.
CredentialsAsStated(proto, password, keyfile, keyfile_pass) ==
    /\ proto \in {"ftp", "ftps"} => has_value(password)
    /\ proto = "sftp" =>
          /\ has_value(password) # has_value(keyfile)
          /\ has_value(keyfile) => keyfile[1] \in ExistingPaths
    /\ has_value(keyfile_pass) => has_value(keyfile)

\* The same with the passphrase looked at on an sftp side only.
CredentialsAsEnforced(proto, password, keyfile, keyfile_pass) ==
    /\ proto \in {"ftp", "ftps"} => has_value(password)
    /\ proto = "sftp" =>
          /\ has_value(password) # has_value(keyfile)
          /\ has_value(keyfile) => keyfile[1] \in ExistingPaths
          /\ has_value(keyfile_pass) => has_value(keyfile)

\* C23 as stated: a rule whose other fields are valid is accepted iff on both
\* sides an ftp/ftps password is non-empty, an sftp side has exactly one of a
\* non-empty password and an existing keyfile, and a passphrase comes with a
\* keyfile only.
C23_AsStated ==
    (OneRuleParsed /\ OnlyCredentialsVary) =>
       (parsed = "Ok" <=>
           /\ CredentialsAsStated(TheRule.proto_from, TheRule.password_from,
                                  TheRule.keyfile_from, TheRule.keyfile_pass_from)
           /\ CredentialsAsStated(TheRule.proto_to, TheRule.password_to,
                                  TheRule.keyfile_to, TheRule.keyfile_pass_to))

\* What validate enforces: the passphrase rule holds for sftp sides only.
C23_AsEnforced ==
    (OneRuleParsed /\ OnlyCredentialsVary) =>
       (parsed = "Ok" <=>
           /\ CredentialsAsEnforced(TheRule.proto_from, TheRule.password_from,
                                    TheRule.keyfile_from, TheRule.keyfile_pass_from)
           /\ CredentialsAsEnforced(TheRule.proto_to, TheRule.password_to,
                                    TheRule.keyfile_to, TheRule.keyfile_pass_to))

\* An ftp side with a password, a passphrase and no keyfile was accepted.
C23_PassphraseOnFtpAccepted ==
    /\ OneRuleParsed
    /\ OnlyCredentialsVary
    /\ parsed = "Ok"
    /\ TheRule.proto_from = "ftp"
    /\ has_value(TheRule.keyfile_pass_from)
    /\ ~has_value(TheRule.keyfile_from)

\* --------------------------------------------------------------- C24
HostsOf(c) == {c.host_from, c.host_to}

\* C24 as stated: a rule with a host that is empty or contains a blank, a tab,
\* '/' or '\' is rejected.
C24_AsStated ==
    (OneRuleParsed /\ \E h \in HostsOf(TheRule) :
                         h = <<>> \/ \E c \in Whitespace \cup {"/", "\\"} : contains(h, c))
       => parsed = "Err"

\* C24: a rule with a host that is empty or contains a blank, '/' or '\' is
\* rejected, and the error names the line; a rule is rejected for its host in
\* no other case.
C24_HostCheck ==
    OneRuleParsed =>
       LET bad(h) == h = <<>> \/ \E c \in {" ", "/", "\\"} : contains(h, c)
           HostMessages == {"host_from cannot be empty", "host_to cannot be empty",
                            "host_from contains invalid characters",
                            "host_to contains invalid characters"}
       IN /\ (\E h \in HostsOf(TheRule) : bad(h)) =>
                (parsed = "Err" /\ parse_error[1] = "invalid config values"
                                /\ parse_error[3] \in HostMessages)
          /\ (parsed = "Err" /\ parse_error[3] \in HostMessages) =>
                \E h \in HostsOf(TheRule) : bad(h)

\* A destination host with a blank in it was rejected.
C24_Witness ==
    /\ OneRuleParsed
    /\ TheRule.host_to = <<"h", " ", "h">>
    /\ parsed = "Err"
    /\ parse_error[3] = "host_to contains invalid characters"

\* --------------------------------------------------------------- C25
\* What is wrong with a line that is not skipped ("" when nothing is).
Failure(l) ==
    IF trim(l.text) # JsonText THEN "invalid JSON"
    ELSE IF l.rule.filename_regexp \in BadPatterns THEN "invalid filename regex pattern"
    ELSE IF validate(l.rule) # "" THEN "invalid config values"
    ELSE ""

FailingLines ==
    {i \in DOMAIN file : ~Skipped(trim(file[i].text)) /\ Failure(file[i]) # ""}

KeptLines == SelectSeq(file, LAMBDA l : ~Skipped(trim(l.text)))

\* C25: blank lines and lines that start with '#' after leading whitespace
\* yield nothing; if some other line fails, the loader returns an error that
\* names what failed on the first such line and its number in the file,
\* counted from 1 over all lines, and no rules; else it returns the rules of
\* the other lines in order.
C25_FirstFailingLine ==
    parsed \in {"Ok", "Err"} =>
       IF FailingLines = {}
          THEN /\ parsed = "Ok"
               /\ configs = [i \in DOMAIN KeptLines |-> KeptLines[i].rule]
          ELSE LET first == CHOOSE i \in FailingLines : \A j \in FailingLines : i <= j
               IN /\ parsed = "Err"
                  /\ parse_error[1] = Failure(file[first])
                  /\ parse_error[2] = first

\* A comment, a valid rule, then a line that fails: the error names line 3
\* although one rule had been read.
C25_Witness ==
    /\ parsed = "Err"
    /\ Len(file) = 3
    /\ Skipped(trim(file[1].text))
    /\ Len(configs) = 1
    /\ parse_error[2] = 3

----
\* The command line: parse_args (cli.rs:102-247).

MaxArgs == 3       \* arguments on the command line

cliRest == <<engineVars, instVars, selectVars, runtimeVars, configVars,
             migrateVars, connectVars, sftpVars, driverVars, logVars,
             poolVars, loginVars>>

Tokens == {"-h", "-d", "-s", "-l", "-p", "-t", "0", "2", "+2", "-1", "x", "conf"}

\* str::parse for usize and u64: Ok(n) as <<n>>, Err as <<>>.
parse(arg) ==
    CASE arg = "0" -> <<0>>
      [] arg = "2" -> <<2>>
      [] arg = "+2" -> <<2>>
      [] arg = "70000" -> <<70000>>
      [] OTHER -> <<>>

\* Mutant: a parallel count of 0 is taken for no number.
parse_parallel_positive(arg) == IF parse(arg) = <<0>> THEN <<>> ELSE parse(arg)

\* cli.rs:145: parallel = arg.parse()
parse_parallel(arg) == parse(arg)

InitCli ==
    /\ EngineOff
    /\ InstanceIdle
    /\ SelectIdle
    /\ RuntimeIdle
    /\ LogIdle
    /\ PoolIdle
    /\ LoginIdle
    /\ ConfigIdle
    /\ MigrateIdle
    /\ ConnectIdle
    /\ SftpIdle
    /\ DriverIdle
    /\ argv \in UNION {[1..n -> Tokens] : n \in 0..MaxArgs}
    /\ argi = 1
    /\ opts = [log_file |-> <<>>, delete |-> FALSE, stdout |-> FALSE,
               config_file |-> <<>>, parallel |-> 1, randomize |-> FALSE,
               grace_seconds |-> 30, connect_timeout |-> <<>>]
    /\ cli_result = <<"parsing", "">>

Return(kind, message) ==
    /\ cli_result' = <<kind, message>>
    /\ UNCHANGED <<argi, opts>>

\* An option with a value: args.next() for the value, then what is done
\* with it; `taken(value)` is the new opts or <<>> when the value is refused.
WithValue(what, taken(_), refusal) ==
    IF argi + 1 > Len(argv)
       THEN Return("MissingArgument", what)
    ELSE IF taken(argv[argi + 1]) = <<>>
       THEN Return("InvalidArgument", refusal)
    ELSE /\ opts' = taken(argv[argi + 1])
         /\ argi' = argi + 2
         /\ UNCHANGED cli_result

Flag(name) ==
    /\ opts' = [opts EXCEPT ![name] = TRUE]
    /\ argi' = argi + 1
    /\ UNCHANGED cli_result

\* cli.rs:118-220: one turn of `while let Some(arg) = args.next()`.
ParseArg ==
    /\ cli_result[1] = "parsing"
    /\ argi <= Len(argv)
    /\ LET arg == argv[argi]
       IN CASE arg = "-h" -> Return("HelpRequested", "")
            [] arg = "-d" -> Flag("delete")
            [] arg = "-s" -> Flag("stdout")
            [] arg = "-l" ->
                 WithValue("log file",
                           LAMBDA v : [opts EXCEPT !.log_file = <<v>>], "")
            [] arg = "-p" ->
                 WithValue("parallel count",
                           LAMBDA v : IF parse_parallel(v) = <<>> THEN <<>>
                                      ELSE [opts EXCEPT !.parallel = parse_parallel(v)[1]],
                           "parallel count must be a positive number")
            [] arg = "-t" ->
                 WithValue("connect timeout",
                           LAMBDA v : IF parse(v) = <<>> \/ parse(v) = <<0>> THEN <<>>
                                      ELSE [opts EXCEPT !.connect_timeout = parse(v)],
                           "connect timeout must be a positive number")
            [] OTHER ->
                 IF opts.config_file = <<>>
                    THEN /\ opts' = [opts EXCEPT !.config_file = <<arg>>]
                         /\ argi' = argi + 1
                         /\ UNCHANGED cli_result
                    ELSE Return("UnexpectedArgument", arg)
    /\ UNCHANGED <<argv, cliRest>>

\* cli.rs:222-246: the checks after the loop and the result.
ParseArgsEnd ==
    /\ cli_result[1] = "parsing"
    /\ argi > Len(argv)
    /\ IF opts.config_file = <<>>
          THEN Return("MissingArgument", "config file")
       ELSE IF opts.stdout /\ opts.log_file # <<>>
          THEN Return("MutuallyExclusiveFlags", "-s and -l flags are mutually exclusive")
       ELSE Return("Ok", "")
    /\ UNCHANGED <<argv, cliRest>>

NextCli == ParseArg \/ ParseArgsEnd

SpecCli == InitCli /\ [][NextCli]_vars

\* --------------------------------------------------------------- C26
PositiveIntegers == {"2", "+2"}

\* The command line starts with -p and a value.
ParallelGiven == Len(argv) >= 2 /\ argv[1] = "-p"

\* C26 as stated: -p with a value that is not a positive integer ends in the
\* invalid-argument error; with a positive integer that is the parallelism;
\* without -p the parallelism is 1.
C26_AsStated ==
    cli_result[1] # "parsing" =>
       /\ (ParallelGiven /\ argv[2] \notin PositiveIntegers) =>
             cli_result = <<"InvalidArgument", "parallel count must be a positive number">>
       /\ (ParallelGiven /\ argv[2] \in PositiveIntegers) =>
             (cli_result[1] # "InvalidArgument" /\ opts.parallel = parse(argv[2])[1])
       /\ (\A i \in DOMAIN argv : argv[i] # "-p") => opts.parallel = 1

\* What parse_args does: only a value that is no unsigned integer is refused.
C26_AsEnforced ==
    cli_result[1] # "parsing" =>
       /\ (ParallelGiven /\ parse(argv[2]) = <<>>) =>
             cli_result = <<"InvalidArgument", "parallel count must be a positive number">>
       /\ (ParallelGiven /\ parse(argv[2]) # <<>>) =>
             (cli_result[1] # "InvalidArgument" /\ opts.parallel = parse(argv[2])[1])
       /\ (\A i \in DOMAIN argv : argv[i] # "-p") => opts.parallel = 1

\* "-p 0 conf" was accepted with a parallelism of 0.
C26_ZeroAccepted ==
    /\ argv = <<"-p", "0", "conf">>
    /\ cli_result[1] = "Ok"
    /\ opts.parallel = 0

----
\* The CSV migrator (migrate_csv_to_jsonl.rs, main) and the loader on its
\* output.  A line is the sequence of its pieces of text, where ',', ' ',
\* '#', '"' and '\' are pieces of their own.

MaxRows == 2       \* lines of a legacy CSV with more than one line

migrateRest == <<engineVars, instVars, selectVars, runtimeVars, cliVars,
                 connectVars, sftpVars, driverVars, logVars, poolVars,
                 loginVars>>

RECURSIVE Str(_)
\* The string a sequence of pieces spells.
Str(pieces) == IF pieces = <<>> THEN "" ELSE pieces[1] \o Str(Tail(pieces))

RECURSIVE split(_)
\* str::split(',')
split(str) ==
    LET commas == {i \in DOMAIN str : str[i] = ","}
    IN IF commas = {} THEN <<str>>
       ELSE LET c == CHOOSE i \in commas : \A j \in commas : i <= j
            IN <<SubSeq(str, 1, c - 1)>> \o split(SubSeq(str, c + 1, Len(str)))

\* str::parse::<u16>
parse_u16(arg) == IF parse(arg) # <<>> /\ parse(arg)[1] <= 65535 THEN parse(arg) ELSE <<>>

\* The decimal digits serde_json writes for a number.
Numeral(n) == CASE n = 0 -> "0" [] n = 2 -> "2" [] n = 70000 -> "70000"

RECURSIVE escape_quotes_only(_)
\* Mutant: the backslash is written as it is.
escape_quotes_only(str) ==
    IF str = <<>> THEN <<>>
    ELSE (IF str[1] = "\"" THEN <<"\\", str[1]>> ELSE <<str[1]>>)
         \o escape_quotes_only(Tail(str))

RECURSIVE escape(_)
\* serde_json writing a string: '"' and '\' get a backslash in front.
escape(str) ==
    IF str = <<>> THEN <<>>
    ELSE (IF str[1] \in {"\"", "\\"} THEN <<"\\", str[1]>> ELSE <<str[1]>>)
         \o escape(Tail(str))

RECURSIVE well_escaped(_)
\* serde_json reading a string: a backslash must be followed by '"' or '\',
\* and no '"' stands alone.
well_escaped(str) ==
    IF str = <<>> THEN TRUE
    ELSE IF str[1] = "\\"
       THEN Len(str) >= 2 /\ str[2] \in {"\"", "\\"} /\ well_escaped(SubSeq(str, 3, Len(str)))
    ELSE str[1] # "\"" /\ well_escaped(Tail(str))

RECURSIVE unescape(_)
unescape(str) ==
    IF str = <<>> THEN <<>>
    ELSE IF str[1] = "\\" THEN <<str[2]>> \o unescape(SubSeq(str, 3, Len(str)))
    ELSE <<str[1]>> \o unescape(Tail(str))

\* migrate_csv_to_jsonl.rs:96-109: the names of the twelve columns.
Columns == <<"host_from", "port_from", "login_from", "password_from", "path_from",
             "host_to", "port_to", "login_to", "password_to", "path_to",
             "age", "filename_regexp">>
NumberColumns == {"port_from", "port_to", "age"}

\* migrate_csv_to_jsonl.rs:96-112: json!({...}).to_string(), a member per
\* column: its name, its kind and its text.
jsonl(fields, port_from, port_to, age_value) ==
    [i \in DOMAIN Columns |->
        CASE Columns[i] = "port_from" -> <<Columns[i], "number", <<Numeral(port_from)>>>>
          [] Columns[i] = "port_to" -> <<Columns[i], "number", <<Numeral(port_to)>>>>
          [] Columns[i] = "age" -> <<Columns[i], "number", <<Numeral(age_value)>>>>
          [] OTHER -> <<Columns[i], "string", escape(fields[i])>>]

\* An output line: text as it is, or the members of a JSON object.
Verbatim(line) == [text |-> line, members |-> <<>>]
Object(members) == [text |-> JsonText, members |-> members]

\* config.rs:24-82 and 321: serde_json::from_str::<Config> on the members of
\* an object.  The fields without a default must be there, numbers must be
\* numbers in range and strings must be strings.
Has_member(members, k) == \E i \in DOMAIN members : members[i][1] = k
Member(members, k) == members[CHOOSE i \in DOMAIN members : members[i][1] = k]

Required == {"host_from", "port_from", "login_from", "path_from", "host_to",
             "port_to", "login_to", "path_to", "age", "filename_regexp"}

from_str_ok(members) ==
    /\ \A k \in Required : Has_member(members, k)
    /\ \A i \in DOMAIN members :
          LET m == members[i]
          IN IF m[1] \in {"port_from", "port_to"}
                THEN m[2] = "number" /\ parse_u16(m[3][1]) # <<>>
             ELSE IF m[1] = "age"
                THEN m[2] = "number" /\ parse(m[3][1]) # <<>>
             ELSE m[2] = "string" /\ well_escaped(m[3])

from_str(members) ==
    LET string(k) == Str(unescape(Member(members, k)[3]))
        option(k) == IF Has_member(members, k) THEN <<string(k)>> ELSE <<>>
        proto(k) == IF Has_member(members, k) THEN string(k) ELSE "ftp"
    IN [host_from |-> unescape(Member(members, "host_from")[3]),
        port_from |-> parse(Member(members, "port_from")[3][1])[1],
        login_from |-> string("login_from"),
        password_from |-> option("password_from"),
        keyfile_from |-> option("keyfile_from"),
        keyfile_pass_from |-> option("keyfile_pass_from"),
        path_from |-> string("path_from"),
        proto_from |-> proto("proto_from"),
        host_to |-> unescape(Member(members, "host_to")[3]),
        port_to |-> parse(Member(members, "port_to")[3][1])[1],
        login_to |-> string("login_to"),
        password_to |-> option("password_to"),
        keyfile_to |-> option("keyfile_to"),
        keyfile_pass_to |-> option("keyfile_pass_to"),
        path_to |-> string("path_to"),
        proto_to |-> proto("proto_to"),
        age |-> parse(Member(members, "age")[3][1])[1],
        filename_regexp |-> string("filename_regexp")]

\* A line of the output file as parse_config takes it: its text and, for a
\* JSON object serde_json can read, the record read from it.
AsLine(out) ==
    IF out.members = <<>> THEN Line(out.text, GoodRule)
    ELSE IF from_str_ok(out.members) THEN Line(JsonText, from_str(out.members))
    ELSE Line(<<"{">>, GoodRule)

RECURSIVE Join(_)
Join(fields) ==
    IF Len(fields) = 1 THEN fields[1]
    ELSE fields[1] \o <<",">> \o Join(Tail(fields))

\* The rows tried: 11, 12 and 13 columns; ports and ages that are numbers,
\* numbers out of range and no numbers; a password with a '"' in it, a
\* pattern with a '\' in it, a pattern Regex::new refuses, an empty password.
Row(extra, port, age_text, password, pattern) ==
    Join(<<<<"h">>, <<port>>, <<"u">>, password, <<"/in">>,
           <<"h">>, <<"2">>, <<"u">>, <<"pw">>, <<"/out">>,
           <<age_text>>, pattern>> \o extra)

Rows ==
    {Row(<<>>, port, a, pw, pat) :
        port \in {"2", "+2", "70000", "x"}, a \in {"0", "-1"},
        pw \in {<<"pw">>, <<>>, <<"p", "\"", "w">>},
        pat \in {<<".*">>, <<".*", "\\", ".txt$">>, <<"(invalid[">>}}
    \cup {Row(<<<<"more">>>>, "2", "0", <<"pw">>, <<".*">>),
          SubSeq(Row(<<>>, "2", "0", <<"pw">>, <<".*">>), 1, 21)}

OtherLines == {<<>>, <<" ">>, <<"#", "c">>, <<" ", "#", ",">>}

FewRows ==
    {Row(<<>>, "2", "0", <<"pw">>, <<".*", "\\", ".txt$">>),
     Row(<<>>, "x", "0", <<"pw">>, <<".*">>),
     Row(<<>>, "2", "0", <<>>, <<".*">>),
     Row(<<<<"more">>>>, "2", "0", <<"pw">>, <<".*">>),
     <<" ", "#", ",">>, <<>>}

InitMigrate ==
    /\ EngineOff
    /\ InstanceIdle
    /\ SelectIdle
    /\ RuntimeIdle
    /\ LogIdle
    /\ PoolIdle
    /\ LoginIdle
    /\ CliIdle
    /\ ConfigIdle
    /\ ConnectIdle
    /\ SftpIdle
    /\ DriverIdle
    /\ csv \in {<<l>> : l \in Rows \cup OtherLines}
               \cup UNION {[1..n -> FewRows] : n \in 2..MaxRows}
    /\ row_num = 0
    /\ output_lines = <<>>
    /\ migrated = FALSE

\* migrate_csv_to_jsonl.rs:43-116: one turn of the loop over the lines.
MigrateLine ==
    /\ ~migrated
    /\ row_num < Len(csv)
    /\ LET line == csv[row_num + 1]
           trimmed == trim(line)
           fields == split(trimmed)
       IN output_lines' =
             IF Skipped(trimmed) THEN Append(output_lines, Verbatim(line))
             ELSE IF Len(fields) # 12 THEN output_lines
             ELSE IF parse_u16(Str(fields[2])) = <<>> THEN output_lines
             ELSE IF parse_u16(Str(fields[7])) = <<>> THEN output_lines
             ELSE IF parse(Str(fields[11])) = <<>> THEN output_lines
             ELSE Append(output_lines,
                         Object(jsonl(fields, parse_u16(Str(fields[2]))[1],
                                      parse_u16(Str(fields[7]))[1],
                                      parse(Str(fields[11]))[1])))
    /\ row_num' = row_num + 1
    /\ UNCHANGED <<csv, migrated, configVars, migrateRest>>

\* migrate_csv_to_jsonl.rs:118-134: the output file is written; then
\* parse_config opens it (config.rs:306-310).
MigrateWrite ==
    /\ ~migrated
    /\ row_num = Len(csv)
    /\ migrated' = TRUE
    /\ file' = [i \in DOMAIN output_lines |-> AsLine(output_lines[i])]
    /\ line_num' = 0
    /\ configs' = <<>>
    /\ parsed' = "reading"
    /\ parse_error' = <<>>
    /\ UNCHANGED <<csv, row_num, output_lines, migrateRest>>

NextMigrate == MigrateLine \/ MigrateWrite \/ ParseLine \/ ParseEnd

SpecMigrate == InitMigrate /\ [][NextMigrate]_vars

\* --------------------------------------------------------------- C28
TwelveColumns(line) == ~Skipped(trim(line)) /\ Len(split(trim(line))) = 12

\* A row the migrator converts: twelve columns, ports and age numbers.
Convertible(line) ==
    /\ TwelveColumns(line)
    /\ LET fields == split(trim(line))
       IN /\ parse_u16(Str(fields[2])) # <<>>
          /\ parse_u16(Str(fields[7])) # <<>>
          /\ parse(Str(fields[11])) # <<>>

\* The rule a row stands for, column by column.
RuleOf(fields) ==
    [host_from |-> fields[1], port_from |-> parse(Str(fields[2]))[1],
     login_from |-> Str(fields[3]), password_from |-> <<Str(fields[4])>>,
     keyfile_from |-> <<>>, keyfile_pass_from |-> <<>>,
     path_from |-> Str(fields[5]), proto_from |-> "ftp",
     host_to |-> fields[6], port_to |-> parse(Str(fields[7]))[1],
     login_to |-> Str(fields[8]), password_to |-> <<Str(fields[9])>>,
     keyfile_to |-> <<>>, keyfile_pass_to |-> <<>>,
     path_to |-> Str(fields[10]), proto_to |-> "ftp",
     age |-> parse(Str(fields[11]))[1], filename_regexp |-> Str(fields[12])]

\* The JSONL written by hand for the CSV: its blank and comment lines as
\* they are and an object for each row that can be converted.
EquivalentJsonl ==
    LET kept == SelectSeq(csv, LAMBDA l : Skipped(trim(l)) \/ Convertible(l))
    IN [i \in DOMAIN kept |->
          IF Skipped(trim(kept[i])) THEN Line(kept[i], GoodRule)
          ELSE Line(JsonText, RuleOf(split(trim(kept[i]))))]

ObjectsOf(lines) == SelectSeq(lines, LAMBDA l : l.text = JsonText)

\* C28 as stated: the output has the blank and comment lines of the input in
\* order, as they were, and as many JSON objects as the input has rows of
\* twelve columns.
C28_AsStated ==
    migrated =>
       /\ SelectSeq(output_lines, LAMBDA o : o.members = <<>>)
             = [i \in DOMAIN SelectSeq(csv, LAMBDA l : Skipped(trim(l))) |->
                   Verbatim(SelectSeq(csv, LAMBDA l : Skipped(trim(l)))[i])]
       /\ Len(SelectSeq(output_lines, LAMBDA o : o.members # <<>>))
             = Len(SelectSeq(csv, TwelveColumns))

\* C28: the output has, in input order, each blank or comment line as it was
\* and one JSON object for each row of twelve columns whose ports and age are
\* numbers, and nothing for any other row; read by the loader it is the
\* JSONL written by hand for these rows, so that the loader returns their
\* rules in order, or the error of the first of them that is not valid.
C28_MigrateThenLoad ==
    migrated =>
       /\ file = EquivalentJsonl
       /\ parsed = "Ok" =>
             configs = [i \in DOMAIN ObjectsOf(EquivalentJsonl) |->
                           ObjectsOf(EquivalentJsonl)[i].rule]
       /\ parsed = "Err" =>
             /\ parse_error[2] \in DOMAIN EquivalentJsonl
             /\ EquivalentJsonl[parse_error[2]].text = JsonText
             /\ \/ validate(EquivalentJsonl[parse_error[2]].rule) # ""
                \/ EquivalentJsonl[parse_error[2]].rule.filename_regexp \in BadPatterns

\* A comment and a row with a '\' in its pattern were migrated and loaded.
C28_Witness ==
    /\ migrated
    /\ parsed = "Ok"
    /\ Len(csv) = 2
    /\ Skipped(trim(csv[1]))
    /\ Len(configs) = 1
    /\ configs[1].filename_regexp = ".*\\.txt$"

\* A row of twelve columns with a port that is no number gave no object.
C28_RowDropped ==
    /\ migrated
    /\ Len(csv) = 1
    /\ TwelveColumns(csv[1])
    /\ output_lines = <<>>

----
\* ProtocolClient::connect of FtpClient, FtpsClient and SftpClient.  What a
\* resolved address does is the stage at which establishing a session on it
\* fails: "tcp" (the TCP connect), "secure" (the TLS upgrade, resp. the SSH
\* handshake), "setup" (PROT P, resp. the timeouts, the SSH session object
\* or the SFTP channel), or "none".

MaxAddrs == 3      \* addresses a host resolves to

connectRest == <<engineVars, instVars, selectVars, runtimeVars, configVars,
                 cliVars, migrateVars, sftpVars, driverVars, logVars,
                 poolVars, loginVars>>

Stages(proto) == IF proto = "ftp" THEN {"tcp", "none"}
                 ELSE {"tcp", "secure", "setup", "none"}

\* What the body of the loop does with an address: "Ok" returns the session,
\* "continue" records the error and goes to the next address, "Err" leaves
\* connect with the error.
\*   ftp.rs:43-48    the TCP connect is all there is;
\*   ftps.rs:133-150 a failed TCP connect or into_secure is recorded, a
\*                   failed PROT P leaves through `?`;
\*   sftp.rs:87-139  a failed TCP connect is recorded; the timeouts,
\*                   Session::new, handshake and sftp() leave through `?`.
Attempt(proto, fails_at) ==
    CASE fails_at = "none" -> "Ok"
      [] fails_at = "tcp" -> "continue"
      [] fails_at = "secure" -> IF proto = "ftps" THEN "continue" ELSE "Err"
      [] fails_at = "setup" -> "Err"

InitConnect ==
    /\ EngineOff
    /\ InstanceIdle
    /\ SelectIdle
    /\ RuntimeIdle
    /\ LogIdle
    /\ PoolIdle
    /\ LoginIdle
    /\ ConfigIdle
    /\ CliIdle
    /\ MigrateIdle
    /\ SftpIdle
    /\ DriverIdle
    /\ protocol \in Protocols
    /\ addrs \in UNION {[1..n -> Stages(protocol)] : n \in 0..MaxAddrs}
    /\ addr_i = 1
    /\ connected = ""
    /\ tried = <<>>

\* One turn of `for addr in addrs`.
TryAddress ==
    /\ connected = ""
    /\ addr_i <= Len(addrs)
    /\ tried' = Append(tried, addr_i)
    /\ LET does == Attempt(protocol, addrs[addr_i])
       IN IF does = "continue"
             THEN addr_i' = addr_i + 1 /\ UNCHANGED connected
             ELSE connected' = does /\ UNCHANGED addr_i
    /\ UNCHANGED <<protocol, addrs, connectRest>>

\* No address (ftp.rs:34-39) or none left (ftp.rs:50-55): the error.
ConnectFails ==
    /\ connected = ""
    /\ addr_i > Len(addrs)
    /\ connected' = "Err"
    /\ UNCHANGED <<protocol, addrs, addr_i, tried, connectRest>>

NextConnect == TryAddress \/ ConnectFails

SpecConnect == InitConnect /\ [][NextConnect]_vars

\* --------------------------------------------------------------- C29
Usable == {i \in DOMAIN addrs : addrs[i] = "none"}

\* C29 as stated: connect returns the session of the first address on which
\* one can be established, having tried the addresses before it in order, and
\* an error only when it has tried every address and none could.
C29_AsStated ==
    connected # "" =>
       IF Usable = {}
          THEN connected = "Err" /\ tried = [i \in DOMAIN addrs |-> i]
          ELSE LET first == CHOOSE i \in Usable : \A j \in Usable : i <= j
               IN connected = "Ok" /\ tried = [i \in 1..first |-> i]

\* What holds: the addresses are tried in order; a session is returned for
\* the address tried last; an error is returned when no address is left or
\* at the first address that fails past the stages that are recorded.
C29_AsEnforced ==
    connected # "" =>
       /\ tried = [i \in DOMAIN tried |-> i]
       /\ \A i \in DOMAIN tried :
             i < Len(tried) => Attempt(protocol, addrs[i]) = "continue"
       /\ connected = "Ok" => addrs[Len(tried)] = "none"
       /\ connected = "Err" =>
             \/ Len(tried) = Len(addrs) /\ \A i \in DOMAIN addrs : addrs[i] # "none"
             \/ tried # <<>> /\ Attempt(protocol, addrs[Len(tried)]) = "Err"

\* The SSH handshake failed on the first address: the second, on which a
\* session could be established, was not tried.
C29_HandshakeEndsConnect ==
    /\ protocol = "sftp"
    /\ addrs = <<"secure", "none">>
    /\ connected = "Err"
    /\ tried = <<1>>

----
\* The SFTP client's working directory (protocols/sftp.rs).  A path is the
\* sequence of its pieces, '/' a piece of its own.

sftpRest == <<engineVars, instVars, selectVars, runtimeVars, configVars,
              cliVars, migrateVars, connectVars, driverVars, logVars,
              poolVars, loginVars>>

Paths == {<<"/">>, <<"/", "in">>, <<"/", "in", "/">>, <<"in", "/", "/">>,
          <<"/", "in", "/", "f">>}
FileNames == {"a.txt", ".a.txt.77.tmp"}

\* What sftp.stat answers for a path.
StatAnswers == {"directory", "file", "error"}

RECURSIVE trim_end_matches(_)
\* str::trim_end_matches('/')
trim_end_matches(str) ==
    IF str # <<>> /\ str[Len(str)] = "/"
       THEN trim_end_matches(SubSeq(str, 1, Len(str) - 1))
       ELSE str

\* sftp.rs:37-39
full_path(name) == trim_end_matches(current_dir) \o <<"/", name>>

\* Mutant: cwd asks for a directory.
cwd_ok_directory_only(answer) == answer = "directory"

\* sftp.rs:180-185: cwd fails iff stat fails.
cwd_ok(answer) == answer # "error"

\* sftp.rs:136-139: the client connect returns.
InitSftp ==
    /\ EngineOff
    /\ InstanceIdle
    /\ SelectIdle
    /\ RuntimeIdle
    /\ LogIdle
    /\ PoolIdle
    /\ LoginIdle
    /\ ConfigIdle
    /\ CliIdle
    /\ MigrateIdle
    /\ ConnectIdle
    /\ DriverIdle
    /\ current_dir = <<"/">>
    /\ cwd_call = <<>>
    /\ sftp_call = <<>>

\* sftp.rs:177-188
Cwd ==
    /\ current_dir # <<>>
    /\ \E dir \in Paths, answer \in StatAnswers :
          /\ cwd_call' = <<dir, answer, cwd_ok(answer), current_dir>>
          /\ current_dir' = IF cwd_ok(answer) THEN dir ELSE current_dir
    /\ UNCHANGED <<sftp_call, sftpRest>>

\* sftp.rs:224-303: mdtm, size, retr, put_file, rm of a name and rename of a
\* name to another; the paths are those handed to the SFTP channel.
SftpOp ==
    /\ current_dir # <<>>
    /\ \E op \in {"mdtm", "size", "retr", "put_file", "rm", "rename"},
          name \in FileNames, to \in FileNames :
          sftp_call' = <<op, current_dir,
                         IF op = "rename" THEN <<name, to>> ELSE <<name>>,
                         IF op = "rename" THEN <<full_path(name), full_path(to)>>
                                          ELSE <<full_path(name)>>>>
    /\ UNCHANGED <<current_dir, cwd_call, sftpRest>>

NextSftp == Cwd \/ SftpOp

SpecSftp == InitSftp /\ [][NextSftp]_vars

\* --------------------------------------------------------------- C30
\* The directory without the '/' at its end, then '/', then the name.
Joined(dir, name) ==
    LET last == CHOOSE n \in 0..Len(dir) :
                   /\ \A k \in (n + 1)..Len(dir) : dir[k] = "/"
                   /\ n > 0 => dir[n] # "/"
    IN SubSeq(dir, 1, last) \o <<"/", name>>

\* The directory is the one of the last cwd if it succeeded, else the one
\* before it; an operation addressed each of its names under the directory
\* it was issued in.
DirectoryKept ==
    /\ cwd_call # <<>> =>
          current_dir = IF cwd_call[3] THEN cwd_call[1] ELSE cwd_call[4]
    /\ sftp_call # <<>> =>
          sftp_call[4] = [i \in DOMAIN sftp_call[3] |->
                             Joined(sftp_call[2], sftp_call[3][i])]

\* C30 as stated: a cwd that succeeded was answered "directory" by stat; a
\* cwd that failed left the directory as it was; an operation on a name
\* addresses the directory of the last successful cwd joined with the name.
C30_AsStated ==
    /\ cwd_call # <<>> => (cwd_call[3] => cwd_call[2] = "directory")
    /\ DirectoryKept

\* What holds: a cwd succeeds iff stat answers, whatever the path is.
C30_AsEnforced ==
    /\ cwd_call # <<>> => (cwd_call[3] <=> cwd_call[2] # "error")
    /\ DirectoryKept

\* cwd to a regular file succeeded, and size addressed a path below it.
C30_CwdToFile ==
    /\ cwd_call # <<>>
    /\ cwd_call[2] = "file"
    /\ cwd_call[3]
    /\ current_dir = <<"/", "in", "/", "f">>
    /\ sftp_call # <<>>
    /\ sftp_call[1] = "size"
    /\ sftp_call[4] = <<<<"/", "in", "/", "f", "/", "a.txt">>>>

----
\* The driver: the pool and the closure it runs for every rule
\* (main.rs:966-996).  The engine is what it returns.

MaxRules == 3      \* rules in the batch
MaxWorkers == 2    \* threads of the pool

driverRest == <<engineRest, instVars, selectVars, runtimeVars, configVars,
                cliVars, migrateVars, connectVars, sftpVars, logVars,
                poolVars, loginVars>>

Workers == 1..MaxWorkers

Busy(w) == \E r \in DOMAIN jobs : jobs[r].at = "engine" /\ jobs[r].worker = w

RECURSIVE SumTo(_)
\* Iterator::sum over the values of the first n rules.
SumTo(n) == IF n = 0 THEN 0 ELSE jobs[n].value + SumTo(n - 1)

InitDriver ==
    /\ EngineOff
    /\ InstanceIdle
    /\ SelectIdle
    /\ RuntimeIdle
    /\ LogIdle
    /\ PoolIdle
    /\ LoginIdle
    /\ ConfigIdle
    /\ CliIdle
    /\ MigrateIdle
    /\ ConnectIdle
    /\ SftpIdle
    /\ \E n \in 0..MaxRules :
          /\ jobs = [r \in 1..n |-> [at |-> "queued", worker |-> 0, saw |-> FALSE,
                                     invoked |-> FALSE, value |-> 0]]
          /\ handed = [r \in 1..n |-> 0]
    /\ total_transfers = <<>>

\* Mutant: the closure does not look at the flag.
ClosureSkipsNever(requested) == FALSE

\* main.rs:985-987: if is_shutdown_requested() { return 0; }
ClosureSkips(requested) == requested

\* main.rs:981-990: a thread of the pool takes a rule and starts the closure:
\* it returns 0 at once or calls transfer_files.
StartRule ==
    /\ total_transfers = <<>>
    /\ \E w \in Workers, r \in DOMAIN jobs :
          /\ ~Busy(w)
          /\ jobs[r].at = "queued"
          /\ handed' = [handed EXCEPT ![r] = @ + 1]
          /\ jobs' = [jobs EXCEPT ![r] =
                        IF ClosureSkips(shutdown)
                           THEN [at |-> "done", worker |-> w, saw |-> shutdown,
                                 invoked |-> FALSE, value |-> 0]
                           ELSE [at |-> "engine", worker |-> w, saw |-> shutdown,
                                 invoked |-> TRUE, value |-> 0]]
    /\ UNCHANGED <<shutdown, total_transfers, driverRest>>

\* main.rs:989: transfer_files returns its tally.
EngineReturns ==
    /\ \E r \in DOMAIN jobs, n \in 0..MaxFiles :
          /\ jobs[r].at = "engine"
          /\ jobs' = [jobs EXCEPT ![r].at = "done", ![r].value = n]
    /\ UNCHANGED <<shutdown, total_transfers, handed, driverRest>>

\* Mutant: install returns once no rule is waiting.
AllFinishedNoneQueued == \A r \in DOMAIN jobs : jobs[r].at # "queued"

\* pool.install returns when the parallel iterator is consumed.
AllFinished == \A r \in DOMAIN jobs : jobs[r].at = "done"

\* main.rs:981-992: the sum is there, install returns.
Install ==
    /\ total_transfers = <<>>
    /\ AllFinished
    /\ total_transfers' = <<SumTo(Len(jobs))>>
    /\ UNCHANGED <<shutdown, jobs, handed, driverRest>>

NextDriver == RequestShutdown \/ StartRule \/ EngineReturns \/ Install

SpecDriver == InitDriver /\ [][NextDriver]_vars

\* --------------------------------------------------------------- C21
\* C21: no rule is given to a worker twice, and once the driver has its
\* total every rule was given to one; a rule whose closure found the flag
\* set has the value 0 and the engine was not called for it, and the engine
\* was called for every other rule that was started; the total is the sum of
\* the values of the rules; the driver has its total only when the closure
\* of every rule has returned.
C21_DriverSum ==
    /\ \A r \in DOMAIN jobs :
          /\ handed[r] <= 1
          /\ jobs[r].at = "queued" <=> handed[r] = 0
          /\ jobs[r].at # "queued" =>
                IF jobs[r].saw
                   THEN jobs[r].at = "done" /\ ~jobs[r].invoked /\ jobs[r].value = 0
                   ELSE jobs[r].invoked
    /\ total_transfers # <<>> =>
          /\ \A r \in DOMAIN jobs : jobs[r].at = "done" /\ handed[r] = 1
          /\ total_transfers[1] = SumTo(Len(jobs))

\* Three rules: the engine transferred for two of them, the third was
\* started after the flag was set; the total is the sum.
C21_Witness ==
    /\ Len(jobs) = 3
    /\ total_transfers = <<3>>
    /\ \E r \in DOMAIN jobs : jobs[r].saw /\ jobs[r].value = 0
    /\ \E r \in DOMAIN jobs : jobs[r].invoked /\ jobs[r].value = 2
    /\ \E r \in DOMAIN jobs : jobs[r].invoked /\ jobs[r].value = 1

----
\* The log (logging.rs): threads of one process calling log_with_thread and
\* set_log_file. Each step is one critical section or one wait for a mutex.

MaxThreads == 2    \* threads that log
MaxCalls == 1      \* calls each thread makes

logRest == <<engineVars, instVars, selectVars, runtimeVars, configVars,
             cliVars, migrateVars, connectVars, sftpVars, driverVars,
             poolVars, loginVars>>

AllThreads == <<"main", "T1", "T2", "T3">>
Threads == {AllThreads[i] : i \in 1..MaxThreads}
LogPaths == {"/a.log", "/b.log"}

InitLog ==
    /\ EngineOff
    /\ InstanceIdle
    /\ SelectIdle
    /\ RuntimeIdle
    /\ PoolIdle
    /\ LoginIdle
    /\ ConfigIdle
    /\ CliIdle
    /\ MigrateIdle
    /\ ConnectIdle
    /\ SftpIdle
    /\ DriverIdle
    /\ log_pc = [t \in Threads |-> "idle"]
    /\ LOG_FILE \in {<<>>, <<"/a.log">>}
    /\ LOG_FILE_HANDLE = <<>>
    /\ path_guard = None
    /\ handle_guard = None
    /\ log_local = [t \in Threads |-> <<>>]
    /\ log_calls = [t \in Threads |-> 0]

At(t, where) == log_pc' = [log_pc EXCEPT ![t] = where]

\* Mutant: the guard is leaked, the mutex stays locked.
drop_leaks(holder) == holder

\* A guard is dropped (logging.rs:117, 202, and the end of either function):
\* the mutex is free again.
drop(holder) == None

\* A thread enters log_with_thread (logging.rs:93-102).
CallLog(t) ==
    /\ log_pc[t] = "idle"
    /\ log_calls[t] < MaxCalls
    /\ log_calls' = [log_calls EXCEPT ![t] = @ + 1]
    /\ At(t, "log: LOG_FILE.lock()")
    /\ UNCHANGED <<LOG_FILE, LOG_FILE_HANDLE, path_guard, handle_guard,
                   log_local, logRest>>

\* A thread enters set_log_file with some path (logging.rs:191-193).
CallSet(t) ==
    /\ log_pc[t] = "idle"
    /\ log_calls[t] < MaxCalls
    /\ log_calls' = [log_calls EXCEPT ![t] = @ + 1]
    /\ \E p \in LogPaths : log_local' = [log_local EXCEPT ![t] = <<p>>]
    /\ At(t, "set: LOG_FILE.lock()")
    /\ UNCHANGED <<LOG_FILE, LOG_FILE_HANDLE, path_guard, handle_guard, logRest>>

\* LOG_FILE.lock() returns (logging.rs:106-113, 196-200): the mutex was free.
LockPath(t) ==
    /\ log_pc[t] \in {"log: LOG_FILE.lock()", "set: LOG_FILE.lock()"}
    /\ path_guard = None
    /\ path_guard' = t
    /\ At(t, IF log_pc[t] = "log: LOG_FILE.lock()" THEN "log: clone" ELSE "set: store")
    /\ UNCHANGED <<LOG_FILE, LOG_FILE_HANDLE, handle_guard, log_local,
                   log_calls, logRest>>

\* logging.rs:116-119, 148-155: clone the path and drop the guard; with no
\* log file the line goes to stdout and the call returns.
LogClone(t) ==
    /\ log_pc[t] = "log: clone"
    /\ log_local' = [log_local EXCEPT ![t] = LOG_FILE]
    /\ path_guard' = drop(t)
    /\ At(t, IF LOG_FILE = <<>> THEN "idle" ELSE "log: LOG_FILE_HANDLE.lock()")
    /\ UNCHANGED <<LOG_FILE, LOG_FILE_HANDLE, handle_guard, log_calls, logRest>>

\* logging.rs:201-202: store the new path and drop the guard.
SetStore(t) ==
    /\ log_pc[t] = "set: store"
    /\ LOG_FILE' = log_local[t]
    /\ path_guard' = drop(t)
    /\ At(t, "set: LOG_FILE_HANDLE.lock()")
    /\ UNCHANGED <<LOG_FILE_HANDLE, handle_guard, log_local, log_calls, logRest>>

\* LOG_FILE_HANDLE.lock() returns (logging.rs:121-125, 205-209).
LockHandle(t) ==
    /\ log_pc[t] \in {"log: LOG_FILE_HANDLE.lock()", "set: LOG_FILE_HANDLE.lock()"}
    /\ handle_guard = None
    /\ handle_guard' = t
    /\ At(t, IF log_pc[t] = "log: LOG_FILE_HANDLE.lock()" THEN "log: write" ELSE "set: clear")
    /\ UNCHANGED <<LOG_FILE, LOG_FILE_HANDLE, path_guard, log_local,
                   log_calls, logRest>>

\* logging.rs:128-155: open the file when no handle is cached (a failed open
\* returns the error), write the line, return; the guard is dropped on either
\* return.
LogWrite(t) ==
    /\ log_pc[t] = "log: write"
    /\ \E opened \in BOOLEAN :
          LOG_FILE_HANDLE' = IF LOG_FILE_HANDLE # <<>> THEN LOG_FILE_HANDLE
                             ELSE IF opened THEN log_local[t]
                             ELSE <<>>
    /\ handle_guard' = drop(t)
    /\ log_local' = [log_local EXCEPT ![t] = <<>>]
    /\ At(t, "idle")
    /\ UNCHANGED <<LOG_FILE, path_guard, log_calls, logRest>>

\* logging.rs:210-211: forget the cached handle, return.
SetClear(t) ==
    /\ log_pc[t] = "set: clear"
    /\ LOG_FILE_HANDLE' = <<>>
    /\ handle_guard' = drop(t)
    /\ log_local' = [log_local EXCEPT ![t] = <<>>]
    /\ At(t, "idle")
    /\ UNCHANGED <<LOG_FILE, path_guard, log_calls, logRest>>

\* The steps of a thread inside a call.
Proceed(t) ==
    \/ LockPath(t)
    \/ LogClone(t)
    \/ SetStore(t)
    \/ LockHandle(t)
    \/ LogWrite(t)
    \/ SetClear(t)

NextLog ==
    \E t \in Threads :
       \/ CallLog(t)
       \/ CallSet(t)
       \/ LockPath(t)
       \/ LogClone(t)
       \/ SetStore(t)
       \/ LockHandle(t)
       \/ LogWrite(t)
       \/ SetClear(t)

\* A thread inside a call is scheduled again; a mutex that stays free is
\* acquired by a thread waiting for it.
SpecLog == InitLog /\ [][NextLog]_vars /\ \A t \in Threads : WF_vars(Proceed(t))

WaitsForPath(t) == log_pc[t] \in {"log: LOG_FILE.lock()", "set: LOG_FILE.lock()"}
WaitsForHandle(t) ==
    log_pc[t] \in {"log: LOG_FILE_HANDLE.lock()", "set: LOG_FILE_HANDLE.lock()"}

\* C32: no thread waits for the LOG_FILE mutex while it holds the
\* LOG_FILE_HANDLE mutex (nor the other way round: no thread holds one mutex
\* while it waits for the other), and every call of log_with_thread or
\* set_log_file that was entered returns.
C32_LogLockOrder ==
    /\ [](\A t \in Threads :
            /\ WaitsForPath(t) => handle_guard # t /\ path_guard # t
            /\ WaitsForHandle(t) => path_guard # t /\ handle_guard # t)
    /\ \A t \in Threads : (log_pc[t] # "idle") ~> (log_pc[t] = "idle")

\* A thread in set_log_file waits for the handle mutex that a thread in
\* log_with_thread holds, while the path mutex is taken by nobody; each of the
\* two is in the last of its calls.
C32_Witness ==
    \E t, u \in Threads :
       /\ log_pc[t] = "set: LOG_FILE_HANDLE.lock()"
       /\ log_pc[u] = "log: write"
       /\ handle_guard = u
       /\ path_guard = None
       /\ log_calls[t] = MaxCalls
       /\ log_calls[u] = MaxCalls

----
\* The workers of the pool, each running transfer_files on a rule of its own
\* (main.rs:980-992), followed through the temporary names they upload to
\* (ftp_ops.rs:500-501, 550).

poolRest == <<engineVars, instVars, selectVars, runtimeVars, configVars,
              cliVars, migrateVars, connectVars, sftpVars, driverVars,
              logVars, loginVars>>

\* ip_address_to, port_to and path_to of a rule.
Destinations == {<<"hostX", 21, "/out">>, <<"hostY", 21, "/out">>}

\* What nlst answers on the source of a rule.
Listings == {SubSeq(AllNames, i, j) : i, j \in 1..MaxFiles} \ {<<>>}

NoWork == <<>>

InitPool ==
    /\ EngineOff
    /\ InstanceIdle
    /\ SelectIdle
    /\ RuntimeIdle
    /\ LoginIdle
    /\ ConfigIdle
    /\ CliIdle
    /\ MigrateIdle
    /\ ConnectIdle
    /\ SftpIdle
    /\ DriverIdle
    /\ LogIdle
    /\ configs_arc \in [1..MaxWorkers -> [to : Destinations, file_list : Listings]]
    /\ running = [w \in Workers |-> NoWork]
    /\ dealt = {}

\* main.rs:981-989: a thread of the pool takes a rule nobody has taken and
\* enters transfer_files; the loop starts at the first listed file.
PoolStart(w) ==
    /\ running[w] = NoWork
    /\ \E r \in DOMAIN configs_arc \ dealt :
          /\ dealt' = dealt \cup {r}
          /\ running' = [running EXCEPT ![w] =
                            [rule |-> r, at |-> 1, step |-> "stage", tmp |-> ""]]
    /\ UNCHANGED <<configs_arc, poolRest>>

\* ftp_ops.rs:501-550: the temporary name is composed for the file, the file
\* is staged, and put_file starts writing to the temporary name.
PoolPut(w) ==
    /\ running[w] # NoWork
    /\ running[w].step = "stage"
    /\ LET cf == configs_arc[running[w].rule]
       IN running' = [running EXCEPT ![w].step = "put_file",
                                     ![w].tmp = tmp_filename(cf.file_list[running[w].at])]
    /\ UNCHANGED <<configs_arc, dealt, poolRest>>

\* ftp_ops.rs:551-712: put_file returns; verification, rename and cleanup
\* follow, then the next file, or the end of transfer_files.
PoolNext(w) ==
    /\ running[w] # NoWork
    /\ running[w].step = "put_file"
    /\ LET cf == configs_arc[running[w].rule]
       IN running' = [running EXCEPT ![w] =
                         IF running[w].at < Len(cf.file_list)
                            THEN [@ EXCEPT !.at = @ + 1, !.step = "stage", !.tmp = ""]
                            ELSE NoWork]
    /\ UNCHANGED <<configs_arc, dealt, poolRest>>

NextPool == \E w \in Workers : PoolStart(w) \/ PoolPut(w) \/ PoolNext(w)

SpecPool == InitPool /\ [][NextPool]_vars

\* Worker w is writing to a temporary file.
Uploading(w) == running[w] # NoWork /\ running[w].step = "put_file"

\* The directory and the name worker w writes to.
Target(w) == <<configs_arc[running[w].rule].to, running[w].tmp>>

\* C35 (as stated): two workers never upload to the same temporary name in
\* the same destination directory at the same time. The name is made of the
\* file name and the process id (ftp_ops.rs:501), which all workers share;
\* neither the rule nor the thread is part of it.
C35_AsStated ==
    \A w, v \in Workers :
       (w # v /\ Uploading(w) /\ Uploading(v)) => Target(w) # Target(v)

\* What the code gives: two workers write to the same temporary file exactly
\* when their rules have the same destination and they are at files of the
\* same name.
C35_AsEnforced ==
    \A w, v \in Workers :
       (w # v /\ Uploading(w) /\ Uploading(v)) =>
          LET cw == configs_arc[running[w].rule]
              cv == configs_arc[running[v].rule]
          IN (Target(w) = Target(v)) <=>
                /\ cw.to = cv.to
                /\ cw.file_list[running[w].at] = cv.file_list[running[v].at]

\* Two rules with one destination both list a.txt, and two workers are
\* uploading it at once.
C35_SameTemporary ==
    \E w, v \in Workers :
       /\ w # v
       /\ Uploading(w)
       /\ Uploading(v)
       /\ Target(w) = Target(v)
       /\ running[w].rule # running[v].rule

----
\* The credentials of one side of a rule on their way from Config::validate
\* through connect_and_login (ftp_ops.rs:19-76) and Client::connect to the
\* login of the protocol client.

loginRest == <<engineVars, instVars, selectVars, runtimeVars, configVars,
               cliVars, migrateVars, connectVars, sftpVars, driverVars,
               logVars, poolVars>>

Sides ==
    [proto : Protocols, password : Passwords, keyfile : Keyfiles,
     keyfile_pass : Passphrases]

NoAuth == <<>>

InitLogin ==
    /\ EngineOff
    /\ InstanceIdle
    /\ SelectIdle
    /\ RuntimeIdle
    /\ ConfigIdle
    /\ CliIdle
    /\ MigrateIdle
    /\ ConnectIdle
    /\ SftpIdle
    /\ DriverIdle
    /\ LogIdle
    /\ PoolIdle
    /\ rule_side \in Sides
    /\ login_pc = "validate"
    /\ auth_method = NoAuth
    /\ userauth = NoAuth

\* parse_config keeps the rule only when Config::validate returns Ok
\* (config.rs:340-345).
ValidateSide ==
    /\ login_pc = "validate"
    /\ login_pc' = IF validate_auth("from", rule_side.proto, rule_side.password,
                                    rule_side.keyfile, rule_side.keyfile_pass) = ""
                      THEN "connect" ELSE "rejected"
    /\ UNCHANGED <<rule_side, auth_method, userauth, loginRest>>

\* ftp_ops.rs:36-44: the password handed to login; <<>> stands for the Err
\* of a missing password.
password_for_login(proto, password, keyfile) ==
    IF proto = "sftp" /\ keyfile # <<>>
       THEN <<unwrap_or(password, "")>>
       ELSE password

\* sftp.rs:57-70: the authentication method connect stores; NoAuth stands for
\* the Err of the last arm.
AuthMethod(password, keyfile_path) ==
    CASE password # <<>> -> [kind |-> "Password", secret |-> password[1]]
      [] password = <<>> /\ keyfile_path # <<>> ->
            [kind |-> "Keyfile", secret |-> keyfile_path[1]]
      [] OTHER -> NoAuth

\* ftp_ops.rs:36-57 and Client::connect: the password for login is worked
\* out, then the client of the protocol connects. The SFTP client decides its
\* authentication method first; the FTP and FTPS clients log in with user and
\* password. Any connect may fail on the network.
ConnectSide ==
    /\ login_pc = "connect"
    /\ \E reached \in BOOLEAN :
          LET for_login == password_for_login(rule_side.proto, rule_side.password,
                                              rule_side.keyfile)
              method == IF rule_side.proto = "sftp"
                           THEN AuthMethod(rule_side.password, rule_side.keyfile)
                           ELSE [kind |-> "UserPass", secret |-> unwrap_or(for_login, "")]
          IN IF for_login = <<>> \/ method = NoAuth \/ ~reached
                THEN login_pc' = "err" /\ UNCHANGED auth_method
                ELSE login_pc' = "login" /\ auth_method' = method
    /\ UNCHANGED <<rule_side, userauth, loginRest>>

\* sftp.rs:149-175 (ftp.rs, ftps.rs: login with user and password): the
\* call that authenticates the session, which the server may refuse.
LoginSide ==
    /\ login_pc = "login"
    /\ userauth' = [call |-> CASE auth_method.kind = "Password" -> "userauth_password"
                               [] auth_method.kind = "Keyfile" -> "userauth_pubkey_file"
                               [] OTHER -> "login",
                    with |-> auth_method.secret]
    /\ \E ok \in BOOLEAN : login_pc' = IF ok THEN "cwd" ELSE "err"
    /\ UNCHANGED <<rule_side, auth_method, loginRest>>

NextLogin == ValidateSide \/ ConnectSide \/ LoginSide

SpecLogin == InitLogin /\ [][NextLogin]_vars

\* The side is one Config::validate accepts as keyfile-authenticated SFTP:
\* a keyfile is set, the password is absent or empty.
KeyfileAuthenticated ==
    /\ login_pc \notin {"validate", "rejected"}
    /\ rule_side.proto = "sftp"
    /\ has_value(rule_side.keyfile)
    /\ ~has_value(rule_side.password)

\* C36 (as stated): for such a side the session authenticates with the
\* keyfile and never with a password. An empty password_from is Some("") in
\* the rule: validate counts it as no password (config.rs:168), but connect
\* matches (Some(pwd), _) first (sftp.rs:58) and login calls
\* userauth_password with the empty password.
C36_AsStated ==
    (KeyfileAuthenticated /\ userauth # NoAuth) =>
       (userauth.call = "userauth_pubkey_file" /\ userauth.with = rule_side.keyfile[1])

\* What the code does: the keyfile is used exactly when the password is
\* absent; an empty password is sent as a password.
C36_AsEnforced ==
    (KeyfileAuthenticated /\ userauth # NoAuth) =>
       IF rule_side.password = <<>>
          THEN userauth = [call |-> "userauth_pubkey_file", with |-> rule_side.keyfile[1]]
          ELSE userauth = [call |-> "userauth_password", with |-> ""]

\* A validated SFTP side with a keyfile and an empty password was logged in
\* with userauth_password.
C36_EmptyPasswordSent ==
    /\ KeyfileAuthenticated
    /\ rule_side.password = <<"">>
    /\ login_pc = "cwd"
    /\ userauth = [call |-> "userauth_password", with |-> ""]

====
